---- MODULE Spec2Model ----
(***************************************************************************)
(* Verification model of the rust7tv emote service: the ingestion pipeline *)
(* (services/seventv), the blob archive client (services/storage), the     *)
(* cache client (services/cache) and the request handlers (routes).        *)
(*                                                                         *)
(* Strings are sequences of tokens (a token is one character or one        *)
(* literal chunk of a format string), so format!() is concatenation and a  *)
(* blob prefix is a sequence prefix.  Option<T> is a sequence of length    *)
(* at most one: None is << >> and Some(x) is << x >>.                      *)
(***************************************************************************)
EXTENDS Integers, Sequences, FiniteSets, TLC

VARIABLES
    archive,     \* blob container: blob name -> [data, content_type]
    cache,       \* redis: key -> [bytes, ttl]
    ledger,      \* table stickers: set of rows, unique on (seven_tv_id, folder_name)
    users,       \* table users: set of rows, unique on folder_name
    procs,       \* one record per request in progress: the handler's position and locals
    storage,     \* StorageService.client: "some" or "none" (fixed at construction)
    faults,      \* store failures injected so far
    nreq         \* requests started so far that go to the catalog

vars == <<archive, cache, ledger, users, procs, storage, faults, nreq>>

-----------------------------------------------------------------------------
(* Bounds of the model *)

MaxBatch == 2          \* longest batch the catalog answers with in Spec
MaxFaults == 1         \* store failures injected in one behaviour
MaxRequests == 2       \* resync requests started in one behaviour
MaxLimit == 2          \* largest explicit limit of a read request
MaxIngestBatch == 6    \* longest batch of SpecIngest
MaxVariedBatch == 2    \* longest batch of SpecIngest that mixes record shapes
MaxServiceBatch == 1   \* longest batch the catalog answers with in SpecService
MaxHostFiles == 2      \* longest file list of a host in SpecDerive

(* Program constants *)

BufferWidth == 5               \* buffer_unordered(5)
UnknownMimeScore == 100        \* unwrap_or(100)
SyncedDefaultLimit == 20       \* params.limit.unwrap_or(20)
SavedDefaultLimit == 100       \* params.limit.unwrap_or(100)
SyncDefaultLimit == 100        \* payload.limit.unwrap_or(100)
AdhocDefaultLimit == 20        \* payload.limit.unwrap_or(20), params.limit.unwrap_or(20)
DefaultPage == 1               \* payload.page.unwrap_or(1)
CacheTtl == 3600               \* CACHE_TTL, default "3600"
TrendingCacheTtl == 900        \* TRENDING_CACHE_TTL, default "900"
TrendingSyncTtl == 86400       \* let ttl = 86400
UserSyncTtl == 2592000         \* 86400 * 30

-----------------------------------------------------------------------------
(* Option and string helpers *)

None == << >>
Some(x) == << x >>
UnwrapOr(o, d) == IF o = << >> THEN d ELSE o[1]
\* Option::or
OptOr(a, b) == IF a # << >> THEN a ELSE b

Min(a, b) == IF a < b THEN a ELSE b

IsPrefix(p, s) == Len(p) <= Len(s) /\ SubSeq(s, 1, Len(p)) = p
EndsWith(s, suf) ==
    Len(suf) <= Len(s) /\ SubSeq(s, Len(s) - Len(suf) + 1, Len(s)) = suf

RECURSIVE MapSeq(_, _)
MapSeq(F(_), s) == IF s = << >> THEN << >> ELSE <<F(s[1])>> \o MapSeq(F, Tail(s))

-----------------------------------------------------------------------------
(* services/seventv: canonical image selection and naming *)

Digits == {"0", "1", "2", "3", "4", "5", "6", "7", "8", "9"}
DigitVal(c) ==
    CASE c = "0" -> 0 [] c = "1" -> 1 [] c = "2" -> 2 [] c = "3" -> 3 [] c = "4" -> 4
      [] c = "5" -> 5 [] c = "6" -> 6 [] c = "7" -> 7 [] c = "8" -> 8 [] c = "9" -> 9

\* char::is_alphanumeric is Unicode-aware: letters and digits of any script.
AsciiLetters == {"a", "b", "k", "Z"}
OtherLetters == {"é"}
is_alphanumeric(c) == c \in AsciiLetters \cup OtherLetters \cup Digits

\* str::parse::<i32>() of a digit string; None when it is not a number.
RECURSIVE DigitsValue(_, _)
DigitsValue(s, acc) ==
    IF s = << >> THEN acc ELSE DigitsValue(Tail(s), 10 * acc + DigitVal(s[1]))
parse_i32(s) ==
    IF s # << >> /\ \A i \in 1..Len(s) : s[i] \in Digits
    THEN Some(DigitsValue(s, 0)) ELSE None

\* str::trim_end_matches(pat): strips every repetition of pat from the end.
RECURSIVE trim_end_matches(_, _)
trim_end_matches(s, pat) ==
    IF pat # << >> /\ EndsWith(s, pat)
    THEN trim_end_matches(SubSeq(s, 1, Len(s) - Len(pat)), pat)
    ELSE s

MimeWebp == <<"image/", "webp">>
MimeGif == <<"image/", "gif">>
MimeAvif == <<"image/", "avif">>
MimePng == <<"image/", "png">>
preferred_mimes == <<MimeWebp, MimeGif, MimeAvif, MimePng>>

\* iter().position(|m| m == mime): 0-based index of the first match.
position(mime) ==
    IF \E i \in 1..Len(preferred_mimes) : preferred_mimes[i] = mime
    THEN Some((CHOOSE i \in 1..Len(preferred_mimes) :
                 /\ preferred_mimes[i] = mime
                 /\ \A j \in 1..(i - 1) : preferred_mimes[j] # mime) - 1)
    ELSE None

CmpInt(x, y) == IF x < y THEN "Less" ELSE IF x > y THEN "Greater" ELSE "Equal"
CmpBool(x, y) == CmpInt(IF x THEN 1 ELSE 0, IF y THEN 1 ELSE 0)

\* faulty variant: the scale does not take part in the comparison
image_cmp_scale_ignored(a, b) ==
    LET a_anim == a.frame_count > 1
        b_anim == b.frame_count > 1
        a_score == UnwrapOr(position(a.mime), UnknownMimeScore)
        b_score == UnwrapOr(position(b.mime), UnknownMimeScore)
    IN  IF a_anim # b_anim THEN CmpBool(a_anim, b_anim)
        ELSE IF a_score # b_score THEN CmpInt(b_score, a_score)
        ELSE "Equal"
\* the closure handed to max_by
image_cmp(a, b) ==
    LET a_anim == a.frame_count > 1
        b_anim == b.frame_count > 1
        a_score == UnwrapOr(position(a.mime), UnknownMimeScore)
        b_score == UnwrapOr(position(b.mime), UnknownMimeScore)
    IN  IF a_anim # b_anim THEN CmpBool(a_anim, b_anim)
        ELSE IF a_score # b_score THEN CmpInt(b_score, a_score)
        ELSE CmpInt(a.scale, b.scale)

\* Iterator::max_by: folds left to right and keeps the later of two equal maxima.
RECURSIVE max_by(_, _, _)
max_by(images, i, best) ==
    IF i > Len(images) THEN best
    ELSE max_by(images, i + 1,
                IF image_cmp(best, images[i]) = "Greater" THEN best ELSE images[i])

select_best_image(images) ==
    IF images = << >> THEN None ELSE Some(max_by(images, 2, images[1]))

\* faulty variant: an unparsable scale becomes 0
derived_image_zero_default(host, f, animated) ==
    LET scale_str == trim_end_matches(f.name, <<"x", ".">> \o f.format)
    IN  [url |-> <<"https:">> \o host.url \o <<"/">> \o f.name,
         mime |-> <<"image/">> \o f.format,
         size |-> 0,
         scale |-> UnwrapOr(parse_i32(scale_str), 0),
         width |-> f.width,
         frame_count |-> IF animated THEN 2 ELSE 1]
\* the image list of a record: the explicit list, else one derived from host+files
derived_image(host, f, animated) ==
    LET scale_str == trim_end_matches(f.name, <<"x", ".">> \o f.format)
    IN  [url |-> <<"https:">> \o host.url \o <<"/">> \o f.name,
         mime |-> <<"image/">> \o f.format,
         size |-> 0,
         scale |-> UnwrapOr(parse_i32(scale_str), 1),
         width |-> f.width,
         frame_count |-> IF animated THEN 2 ELSE 1]

emote_images(e) ==
    IF e.images # None THEN Some(e.images[1])
    ELSE IF e.host # None
    THEN LET host == e.host[1]
             animated == UnwrapOr(e.animated, FALSE)
             D(f) == derived_image(host, f, animated)
         IN  Some(MapSeq(D, host.files))
    ELSE None

extension(mime) ==
    IF mime = MimeWebp THEN <<".webp">>
    ELSE IF mime = MimeGif THEN <<".gif">>
    ELSE IF mime = MimeAvif THEN <<".avif">>
    ELSE <<".png">>

safe_char(c) ==
    IF is_alphanumeric(c) \/ c = "." \/ c = "-" \/ c = "_" \/ c = " " THEN c ELSE "_"
safe_name(name) == MapSeq(safe_char, name)

\* faulty variant: a record without a name is named by its id
emote_display_name_or_id(e) == OptOr(OptOr(e.default_name, e.name), Some(e.id))
emote_display_name(e) == OptOr(e.default_name, e.name)

\* faulty variant: the id is left out of the name
file_name_without_id(name, id, mime) == safe_name(name) \o extension(mime)
file_name(name, id, mime) == safe_name(name) \o <<"_">> \o id \o extension(mime)
blob_name(folder, fname) == folder \o <<"/">> \o fname

owner_name(e) == IF e.owner = None THEN None ELSE e.owner[1]

-----------------------------------------------------------------------------
(* models: EmoteResponse, SearchResponse and their JSON form *)

\* serde_json::to_value of an EmoteResponse: camelCase keys, None fields skipped
emote_optional_keys(a) ==
    {k \in {"owner", "animated", "scale", "mime"} : a[k] # None}
emote_to_json(a) ==
    [k \in {"fileName", "url", "emoteId", "emoteName"} \cup emote_optional_keys(a) |->
        CASE k = "fileName" -> a.file_name
          [] k = "url" -> a.url
          [] k = "emoteId" -> a.emote_id
          [] k = "emoteName" -> a.emote_name
          [] OTHER -> a[k][1]]

\* serde_json::from_value::<EmoteResponse>: the four strings are required
emote_from_json(o) ==
    LET opt(k) == IF k \in DOMAIN o THEN Some(o[k]) ELSE None
    IN  IF {"fileName", "url", "emoteId", "emoteName"} \subseteq DOMAIN o
        THEN Some([file_name |-> o["fileName"], url |-> o["url"],
                   emote_id |-> o["emoteId"], emote_name |-> o["emoteName"],
                   owner |-> opt("owner"), animated |-> opt("animated"),
                   scale |-> opt("scale"), mime |-> opt("mime")])
        ELSE None

\* serde_json::to_vec(&Vec<EmoteResponse>)
emotes_to_vec(list) == [kind |-> "array", items |-> MapSeq(emote_to_json, list)]

\* serde_json::from_slice::<Vec<EmoteResponse>>
emotes_from_slice(bytes) ==
    IF bytes.kind = "array"
       /\ \A i \in 1..Len(bytes.items) : emote_from_json(bytes.items[i]) # None
    THEN LET F(o) == emote_from_json(o)[1] IN Some(MapSeq(F, bytes.items))
    ELSE None

\* the bytes of a downloaded image are determined by the URL they come from
image_bytes(url) == [kind |-> "image", items |-> <<url>>]

\* faulty variant: the failure envelope says success: true
FailedResponse_success(msg) ==
    [success |-> TRUE, total_found |-> 0, emotes |-> << >>, message |-> Some(msg),
     cached |-> Some(FALSE), processing_time |-> None, page |-> None,
     total_pages |-> None, results_per_page |-> None, has_next_page |-> None]
FailedResponse(msg) ==
    [success |-> FALSE, total_found |-> 0, emotes |-> << >>, message |-> Some(msg),
     cached |-> Some(FALSE), processing_time |-> None, page |-> None,
     total_pages |-> None, results_per_page |-> None, has_next_page |-> None]

PageResponse(emotes, msg, cached, limit) ==
    [success |-> TRUE, total_found |-> Len(emotes), emotes |-> emotes, message |-> msg,
     cached |-> Some(cached), processing_time |-> None, page |-> Some(1),
     total_pages |-> Some(1), results_per_page |-> Some(limit),
     has_next_page |-> Some(FALSE)]

\* serde_json::to_vec(&SearchResponse): camelCase keys, None fields skipped
response_optional_keys(r) ==
    {k \in {"message", "cached", "processing_time", "page", "total_pages",
            "results_per_page", "has_next_page"} : r[k] # None}
camel_case(k) ==
    CASE k = "processing_time" -> "processingTime"
      [] k = "total_pages" -> "totalPages"
      [] k = "results_per_page" -> "resultsPerPage"
      [] k = "has_next_page" -> "hasNextPage"
      [] OTHER -> k
response_to_json(r) ==
    [k \in {"success", "totalFound", "emotes"}
            \cup {camel_case(f) : f \in response_optional_keys(r)} |->
        CASE k = "success" -> <<r.success>>
          [] k = "totalFound" -> <<r.total_found>>
          [] k = "emotes" -> MapSeq(emote_to_json, r.emotes)
          [] OTHER -> r[CHOOSE f \in response_optional_keys(r) : camel_case(f) = k]]
response_to_vec(r) == [kind |-> "object", items |-> <<response_to_json(r)>>]

\* serde_json::from_slice::<SearchResponse>: success, totalFound and emotes are
\* required, an absent Option field is None
response_from_slice(bytes) ==
    IF bytes.kind # "object" THEN None
    ELSE LET o == bytes.items[1]
             opt(k) == IF k \in DOMAIN o THEN o[k] ELSE None
         IN  IF /\ {"success", "totalFound", "emotes"} \subseteq DOMAIN o
                /\ \A i \in 1..Len(o["emotes"]) : emote_from_json(o["emotes"][i]) # None
             THEN LET F(e) == emote_from_json(e)[1]
                  IN  Some([success |-> o["success"][1],
                            total_found |-> o["totalFound"][1],
                            emotes |-> MapSeq(F, o["emotes"]),
                            message |-> opt("message"), cached |-> opt("cached"),
                            processing_time |-> opt("processingTime"),
                            page |-> opt("page"), total_pages |-> opt("totalPages"),
                            results_per_page |-> opt("resultsPerPage"),
                            has_next_page |-> opt("hasNextPage")])
             ELSE None

-----------------------------------------------------------------------------
(* services/storage: the blob archive *)

AccountName == <<"acct">>
ContainerName == <<"emotes">>

blob_url(name) ==
    <<"https://">> \o AccountName \o <<".blob.core.windows.net/">> \o ContainerName
        \o <<"/">> \o name

BlobsUnder(arch, prefix) == {n \in DOMAIN arch : IsPrefix(prefix, n)}

put_block_blob(arch, name, data, ctype) ==
    [n \in DOMAIN arch \cup {name} |->
        IF n = name THEN [data |-> data, content_type |-> ctype] ELSE arch[n]]

delete_blob(arch, name) == [n \in DOMAIN arch \ {name} |-> arch[n]]

\* upload_blob, the existence check: get_properties answers Ok only when the blob is
\* there and the call itself succeeds; every Err is taken as "not found".
\* faulty variant: the check never finds the blob
get_properties_never_ok(arch, name, call_failed) == FALSE
get_properties_ok(arch, name, call_failed) == name \in DOMAIN arch /\ ~call_failed

-----------------------------------------------------------------------------
(* services/cache *)

BoolStr(b) == IF b THEN <<"true">> ELSE <<"false">>

\* format!("{}", n) of an i32
IntStr(n) == <<ToString(n)>>

get_cache_key(query, limit, animated_only) ==
    <<"emote_search", ":">> \o query \o <<":">> \o IntStr(limit) \o <<":">>
        \o BoolStr(animated_only)

get_trending_cache_key(period, limit, page, animated_only) ==
    <<"trending", ":">> \o period \o <<":">> \o IntStr(limit) \o <<":">> \o IntStr(page)
        \o <<":">> \o BoolStr(animated_only)

save_to_cache(c, key, bytes, ttl) ==
    [k \in DOMAIN c \cup {key} |-> IF k = key THEN [bytes |-> bytes, ttl |-> ttl] ELSE c[k]]

get_from_cache(c, key, call_failed) ==
    IF key \in DOMAIN c /\ ~call_failed THEN Some(c[key].bytes) ELSE None

\* the long-TTL key of a synced trending folder
get_trending_sync_key(period_str, animated_only) ==
    <<"trending_sync", ":">> \o period_str \o <<":">> \o BoolStr(animated_only)

user_emotes_key(folder) == <<"user_emotes", ":">> \o folder

-----------------------------------------------------------------------------
(* the ledger: table stickers *)

StickerRow(a, folder) ==
    [seven_tv_id |-> a.emote_id, emote_name |-> a.emote_name, file_name |-> a.file_name,
     url |-> a.url, owner_name |-> a.owner, tags |-> None,
     animated |-> UnwrapOr(a.animated, FALSE), folder_name |-> folder]

row_to_emote(s) ==
    [file_name |-> s.file_name, url |-> s.url, emote_id |-> s.seven_tv_id,
     emote_name |-> s.emote_name, owner |-> s.owner_name,
     animated |-> Some(s.animated), scale |-> None, mime |-> None]

RowsOf(tbl, folder) == {r \in tbl : r.folder_name = folder}
\* the unique index of table stickers
stickers_unique_key(r) == <<r.seven_tv_id, r.folder_name>>
Conflicts(tbl, row) == {r \in tbl : stickers_unique_key(r) = stickers_unique_key(row)}

\* DELETE FROM stickers WHERE folder_name = $1
delete_stickers(tbl, folder) == tbl \ RowsOf(tbl, folder)

\* INSERT INTO stickers ...: a row with the same (seven_tv_id, folder_name) makes the
\* statement fail and the table is left as it was
\* faulty variant: the row is added whatever the table holds
insert_sticker_unchecked(tbl, row) == tbl \cup {row}
insert_sticker(tbl, row) == IF Conflicts(tbl, row) = {} THEN tbl \cup {row} ELSE tbl

\* INSERT ... ON CONFLICT (seven_tv_id, folder_name) DO UPDATE SET ...
upsert_sticker(tbl, row) == (tbl \ Conflicts(tbl, row)) \cup {row}

\* INSERT INTO users ... ON CONFLICT (folder_name) DO UPDATE SET ...
upsert_user(tbl, row) == {r \in tbl : r.folder_name # row.folder_name} \cup {row}

\* SELECT ... WHERE folder_name = $1 LIMIT $2: the sequences the query may answer
\* with (no ORDER BY: any min(limit, n) distinct rows, in any order)
RECURSIVE SeqsOfSize(_, _)
SeqsOfSize(S, n) ==
    IF n = 0 THEN {<< >>}
    ELSE UNION {{<<x>> \o t : t \in SeqsOfSize(S \ {x}, n - 1)} : x \in S}
\* faulty variant: the WHERE clause is missing
select_stickers_any_folder(tbl, folder, limit) ==
    SeqsOfSize(tbl, Min(limit, Cardinality(tbl)))
select_stickers(tbl, folder, limit) ==
    SeqsOfSize(RowsOf(tbl, folder), Min(limit, Cardinality(RowsOf(tbl, folder))))

-----------------------------------------------------------------------------
(* Inputs *)

Image(url, mime, scale, frames) ==
    [url |-> url, mime |-> mime, size |-> 0, scale |-> scale, width |-> 0,
     frame_count |-> frames]
HostFile(name, format) == [name |-> name, format |-> format, width |-> 0, height |-> 0]

\* a record with an explicit image list
RecImages ==
    [id |-> <<"1">>, default_name |-> Some(<<"a">>), name |-> None,
     owner |-> Some(Some(<<"o">>)),
     images |-> Some(<<Image(<<"u1">>, MimeWebp, 1, 1)>>), host |-> None,
     animated |-> None]
\* a record of the trending shape: host + files, named by `name`
RecHost ==
    [id |-> <<"2">>, default_name |-> None, name |-> Some(<<"b", "!">>),
     owner |-> None, images |-> None,
     host |-> Some([url |-> <<"//cdn/2">>,
                    files |-> <<HostFile(<<"2", "x", ".", "gif">>, <<"gif">>)>>]),
     animated |-> Some(TRUE)]
\* a record with no image source at all
RecBare ==
    [id |-> <<"3">>, default_name |-> Some(<<"k">>), name |-> None, owner |-> None,
     images |-> None, host |-> None, animated |-> None]

SvcRecords == {RecImages, RecHost}

\* the same emote as RecImages, its image served from another URL
RecImagesB ==
    [RecImages EXCEPT !.images = Some(<<Image(<<"u2">>, MimeWebp, 1, 1)>>)]
\* a record with images but neither default_name nor name
RecNoName ==
    [id |-> <<"4">>, default_name |-> None, name |-> None, owner |-> Some(None),
     images |-> Some(<<Image(<<"u4">>, MimeGif, 1, 2)>>), host |-> None,
     animated |-> None]
\* an empty images list beside a usable host
RecEmptyImages ==
    [id |-> <<"5">>, default_name |-> Some(<<"Z">>), name |-> None, owner |-> None,
     images |-> Some(<< >>),
     host |-> Some([url |-> <<"//cdn/5">>,
                    files |-> <<HostFile(<<"1", "x", ".", "webp">>, <<"webp">>)>>]),
     animated |-> None]
\* several variants, one of an unlisted MIME type, and a name that needs sanitizing
RecMulti ==
    [id |-> <<"6">>, default_name |-> Some(<<"a", " ", "é", "/">>),
     name |-> Some(<<"k">>), owner |-> None,
     images |-> Some(<<Image(<<"u6a">>, <<"image/", "jpeg">>, 4, 1),
                       Image(<<"u6b">>, MimeAvif, 1, 1),
                       Image(<<"u6c">>, <<"image/", "jpeg">>, 2, 1)>>),
     host |-> None, animated |-> None]

\* a record whose only variant has a MIME type outside the preferred list
RecOther ==
    [id |-> <<"7">>, default_name |-> None, name |-> Some(<<"Z", "-", "9">>),
     owner |-> None,
     images |-> Some(<<Image(<<"u7">>, <<"image/", "jpeg">>, 2, 1)>>), host |-> None,
     animated |-> None]

IngestRecords ==
    {RecImages, RecImagesB, RecHost, RecBare, RecNoName, RecEmptyImages, RecMulti,
     RecOther}

RECURSIVE SeqsUpTo(_, _)
SeqsUpTo(S, n) ==
    IF n = 0 THEN {<< >>}
    ELSE SeqsUpTo(S, n - 1) \cup
         {<<x>> \o t : x \in S, t \in {u \in SeqsUpTo(S, n - 1) : Len(u) = n - 1}}

SvcBatches == SeqsUpTo(SvcRecords, MaxBatch)

\* the same emote as RecImages, the catalog naming no owner for it
RecNoOwner == [RecImages EXCEPT !.owner = None]
\* the batches of SpecLedger: one external id, listed once or twice, in two forms
LedgerBatches == SeqsUpTo({RecImages, RecNoOwner}, MaxBatch)

\* a batch longer than the buffer: two records that reach the upload, then records
\* whose pipeline ends after the download
LongBatch(n) == [i \in 1..n |-> IF i <= 2 THEN RecImages ELSE RecNoName]

\* the batches of SpecIngest: short ones of every shape, and long ones
IngestBatches ==
    SeqsUpTo(IngestRecords, MaxVariedBatch) \cup {LongBatch(n) : n \in 1..MaxIngestBatch}


\* the variant lists of SpecSelect: every MIME rank at two scales, still and animated,
\* and a second MIME type off the preference list
MaxVariants == 3       \* longest variant list of SpecSelect
VariantMimes == {MimeWebp, MimeGif, MimeAvif, MimePng, <<"image/", "jpeg">>}
Variant(mime, scale, frames) ==
    Image(<<"v", mime[2], ToString(scale), ToString(frames)>>, mime, scale, frames)
VariantChoices ==
    {Variant(m, s, 1) : m \in VariantMimes, s \in {1, 2}}
        \cup {Variant(MimePng, 1, 2), Variant(<<"image/", "jpeg">>, 2, 2),
              Variant(<<"image/", "bmp">>, 2, 1)}
VariantLists == SeqsUpTo(VariantChoices, MaxVariants)
\* a record with the given explicit image list
RecVariants(list) ==
    [id |-> <<"8">>, default_name |-> Some(<<"k">>), name |-> None, owner |-> None,
     images |-> Some(list), host |-> None, animated |-> None]

\* the files of a host in SpecDerive: names of the form "{scale}x.{format}", names off
\* the form, and a format that is not the one in the name
HostFileChoices ==
    {HostFile(<<"2", "x", ".", "gif">>, <<"gif">>),
     HostFile(<<"1", "x", ".", "webp">>, <<"webp">>),
     HostFile(<<"1", "2", "x", ".", "avif">>, <<"avif">>),
     HostFile(<<"x", ".", "png">>, <<"png">>),
     HostFile(<<"2", "x", "_", "s", ".", "webp">>, <<"webp">>),
     HostFile(<<"4", "x", ".", "webp">>, <<"avif">>),
     HostFile(<<"3">>, <<"gif">>),
     HostFile(<<"3", "x", ".", "gif", "x", ".", "gif">>, <<"gif">>)}
DefaultPeriod == <<"trending_weekly">>
PeriodInputs == {None, Some(<<"trending_weekly">>)}
FlagInputs == {None, Some(FALSE)}
EmoteTypeInputs == {None, Some(<<"animated">>)}
LimitInputs == {None} \cup {Some(l) : l \in -1..MaxLimit}
UserFolders == {<<"u">>}
UserIds == {<<"U1">>}
QueryInputs == {<<"q">>}
PageInputs == {None}
AdhocLimitInputs == {None, Some(1)}
\* the pages the overlapping ad-hoc searches ask for: the default one and a later one
AdhocPageInputs == {None, Some(2)}


-----------------------------------------------------------------------------
(* Requests in progress *)

NoCalls ==
    [list |-> 0, delete |-> 0, fetch |-> 0, download |-> 0, head |-> 0, put |-> 0,
     cache_set |-> 0, cache_get |-> 0, db_write |-> 0, db_read |-> 0]

NewProc ==
    [pc |-> "idle", kind |-> "none", folder |-> << >>, period_str |-> << >>,
     animated_only |-> FALSE, user_id |-> << >>, limit |-> 0,
     query |-> << >>, page |-> 0,
     todel |-> {}, batch |-> << >>, st |-> << >>, dl |-> << >>, up |-> << >>,
     out |-> << >>, processed |-> << >>, ins |-> 0,
     resp |-> None, phases |-> << >>, calls |-> NoCalls, errs |-> {}, pre |-> None]

Snapshot == Some([archive |-> archive, cache |-> cache, ledger |-> ledger, users |-> users])

Call(q, what) == [q EXCEPT !.calls[what] = @ + 1]
Phase(q, ph) == [q EXCEPT !.phases = Append(@, ph)]
Finish(q, response) == [q EXCEPT !.pc = "done", !.resp = Some(response)]
\* a store call of this request has failed
Err(q, failed, what) == IF failed THEN [q EXCEPT !.errs = @ \cup {what}] ELSE q

Idle == \A p \in DOMAIN procs : procs[p].pc = "idle"

\* the ledger folder and the cache key a resync or a read works on
db_folder(q) ==
    IF q.kind \in {"sync_trending", "synced_read"}
    THEN <<"trending_sync", ":">> \o q.period_str \o <<":">> \o BoolStr(q.animated_only)
    ELSE q.folder
sync_key(q) ==
    IF q.kind \in {"sync_trending", "synced_read"}
    THEN get_trending_sync_key(q.period_str, q.animated_only)
    ELSE user_emotes_key(q.folder)
trending_folder(period_str, animated_only) ==
    <<"trending", "/">> \o period_str \o <<"/">>
        \o (IF animated_only THEN <<"animated">> ELSE <<"static">>)
metadata_blob_name(folder) == folder \o <<"/", "_metadata.json">>

-----------------------------------------------------------------------------
(* services/seventv: process_emotes_batch and process_single_emote *)

InFlight(q) == {i \in 1..Len(q.st) : q.st[i] \in {"download", "check", "put"}}
\* buffer_unordered(5) polls the stream only while fewer than 5 futures are pending
\* faulty variant: buffer_unordered without a width
HasFreeSlot_unbounded(q) == TRUE
HasFreeSlot(q) == Cardinality(InFlight(q)) < BufferWidth
Unpolled(q) == {i \in 1..Len(q.st) : q.st[i] = "new"}

best_image(e) == select_best_image(emote_images(e)[1])[1]

emote_response(e, url) ==
    LET img == best_image(e)
        name == emote_display_name(e)[1]
    IN  [file_name |-> file_name(name, e.id, img.mime), url |-> url,
         emote_id |-> e.id, emote_name |-> name, owner |-> owner_name(e),
         animated |-> Some(img.frame_count > 1), scale |-> Some(img.scale),
         mime |-> Some(img.mime)]

emote_blob_name(folder, e) ==
    blob_name(folder, file_name(emote_display_name(e)[1], e.id, best_image(e).mime))

Yield(q, i, how) ==
    LET e == q.batch[i]
    IN  [q EXCEPT !.st[i] = "some", !.up[i] = how,
                  !.out = Append(@, emote_response(e, blob_url(emote_blob_name(q.folder, e))))]

\* the stream hands the next record to a free slot of buffer_unordered; the record's
\* future runs up to its first await (the image request) or returns None at once
PollNext(p) ==
    LET q == procs[p] IN
    /\ q.pc = "ingest"
    /\ Unpolled(q) # {}
    /\ HasFreeSlot(q)
    /\ LET i == CHOOSE j \in Unpolled(q) : \A k \in Unpolled(q) : j <= k
           e == q.batch[i]
           images == emote_images(e)
       IN  procs' = [procs EXCEPT ![p] =
              IF images = None \/ select_best_image(images[1]) = None
              THEN [q EXCEPT !.st[i] = "none"]
              ELSE Call([q EXCEPT !.st[i] = "download"], "download")]
    /\ UNCHANGED <<archive, cache, ledger, users, storage, faults, nreq>>

\* the image request returns; on success the name is built and upload_blob starts
DownloadDone(p, i) ==
    LET q == procs[p] IN
    /\ q.pc = "ingest"
    /\ i \in 1..Len(q.st)
    /\ q.st[i] = "download"
    /\ \E ok \in BOOLEAN :
         procs' = [procs EXCEPT ![p] =
            IF ~ok THEN [q EXCEPT !.st[i] = "none", !.dl[i] = "fail"]
            ELSE IF emote_display_name(q.batch[i]) = None
                 THEN [q EXCEPT !.st[i] = "none", !.dl[i] = "ok"]
            ELSE IF storage = "none"
                 THEN [q EXCEPT !.st[i] = "none", !.dl[i] = "ok", !.up[i] = "fail"]
            ELSE Call([q EXCEPT !.st[i] = "check", !.dl[i] = "ok"], "head")]
    /\ UNCHANGED <<archive, cache, ledger, users, storage, faults, nreq>>

\* upload_blob: get_properties returns
UploadCheck(p, i) ==
    LET q == procs[p] IN
    /\ q.pc = "ingest"
    /\ i \in 1..Len(q.st)
    /\ q.st[i] = "check"
    /\ \E failed \in BOOLEAN :
         LET bn == emote_blob_name(q.folder, q.batch[i]) IN
         /\ failed => (faults < MaxFaults /\ bn \in DOMAIN archive)
         /\ faults' = IF failed THEN faults + 1 ELSE faults
         /\ procs' = [procs EXCEPT ![p] =
              IF get_properties_ok(archive, bn, failed)
              THEN Yield(q, i, "exists")
              ELSE Err(Call([q EXCEPT !.st[i] = "put"], "put"), failed, "head")]
    /\ UNCHANGED <<archive, cache, ledger, users, storage, nreq>>

\* upload_blob: put_block_blob returns
UploadPut(p, i) ==
    LET q == procs[p] IN
    /\ q.pc = "ingest"
    /\ i \in 1..Len(q.st)
    /\ q.st[i] = "put"
    /\ \E ok \in BOOLEAN :
         LET e == q.batch[i]
             img == best_image(e)
         IN
         /\ ~ok => faults < MaxFaults
         /\ faults' = IF ok THEN faults ELSE faults + 1
         /\ archive' = IF ok
                       THEN put_block_blob(archive, emote_blob_name(q.folder, e),
                                           image_bytes(img.url), img.mime)
                       ELSE archive
         /\ procs' = [procs EXCEPT ![p] =
              IF ok THEN Yield(q, i, "stored")
              ELSE Err([q EXCEPT !.st[i] = "none", !.up[i] = "fail"], TRUE, "put")]
    /\ UNCHANGED <<cache, ledger, users, storage, nreq>>

AfterIngest(kind) ==
    IF kind \in {"sync_trending", "sync_user"} THEN "cache_save"
    ELSE IF kind \in {"adhoc_search", "adhoc_trending"} THEN "adhoc_save"
    ELSE "returned"

\* faulty variant: collect() returns as soon as no future is in flight
IngestReturn_when_idle(p) ==
    LET q == procs[p] IN
    /\ q.pc = "ingest"
    /\ InFlight(q) = {}
    /\ procs' = [procs EXCEPT ![p] =
          [q EXCEPT !.pc = AfterIngest(q.kind), !.processed = q.out]]
    /\ UNCHANGED <<archive, cache, ledger, users, storage, faults, nreq>>
\* faulty variant: one failed record fails the whole batch
IngestReturn_all_or_nothing(p) ==
    LET q == procs[p] IN
    /\ q.pc = "ingest"
    /\ \A i \in 1..Len(q.st) : q.st[i] \in {"some", "none"}
    /\ procs' = [procs EXCEPT ![p] =
          [q EXCEPT !.pc = AfterIngest(q.kind),
                    !.processed = IF \E i \in 1..Len(q.st) : q.st[i] = "none"
                                  THEN << >> ELSE q.out]]
    /\ UNCHANGED <<archive, cache, ledger, users, storage, faults, nreq>>

\* collect() returns once the stream is exhausted and no future is in flight
IngestReturn(p) ==
    LET q == procs[p] IN
    /\ q.pc = "ingest"
    /\ \A i \in 1..Len(q.st) : q.st[i] \in {"some", "none"}
    /\ procs' = [procs EXCEPT ![p] =
          [q EXCEPT !.pc = AfterIngest(q.kind), !.processed = q.out]]
    /\ UNCHANGED <<archive, cache, ledger, users, storage, faults, nreq>>

StartIngest(q, batch) ==
    [Phase(q, "ingest") EXCEPT
        !.pc = "ingest", !.batch = batch,
        !.st = [i \in 1..Len(batch) |-> "new"],
        !.dl = [i \in 1..Len(batch) |-> "none"],
        !.up = [i \in 1..Len(batch) |-> "none"],
        !.out = << >>]

-----------------------------------------------------------------------------
(* routes: sync_trending_handler and sync_user_emotes_handler *)

CleanupFailed == <<"Failed to cleanup existing emotes: ">>
UpstreamFailed == <<"7TV API Error">>

\* faulty variant: a resync waits while another request works on the same folder
SyncTrendingStart_exclusive(p, period, animated) ==
    /\ procs[p].pc = "idle"
    /\ nreq < MaxRequests
    /\ \A o \in DOMAIN procs \ {p} :
         procs[o].folder # trending_folder(UnwrapOr(period, DefaultPeriod),
                                           UnwrapOr(animated, FALSE))
    /\ nreq' = nreq + 1
    /\ LET animated_only == UnwrapOr(animated, FALSE)
           period_str == UnwrapOr(period, DefaultPeriod)
       IN  procs' = [procs EXCEPT ![p] =
              [NewProc EXCEPT !.pc = "cleanup", !.kind = "sync_trending",
                              !.limit = SyncDefaultLimit,
                              !.period_str = period_str,
                              !.animated_only = animated_only,
                              !.folder = trending_folder(period_str, animated_only),
                              !.pre = Snapshot]]
    /\ UNCHANGED <<archive, cache, ledger, users, storage, faults>>
SyncTrendingStart(p, period, animated) ==
    /\ procs[p].pc = "idle"
    /\ nreq < MaxRequests
    /\ nreq' = nreq + 1
    /\ LET animated_only == UnwrapOr(animated, FALSE)
           period_str == UnwrapOr(period, DefaultPeriod)
       IN  procs' = [procs EXCEPT ![p] =
              [NewProc EXCEPT !.pc = "cleanup", !.kind = "sync_trending",
                              !.limit = SyncDefaultLimit,
                              !.period_str = period_str,
                              !.animated_only = animated_only,
                              !.folder = trending_folder(period_str, animated_only),
                              !.pre = Snapshot]]
    /\ UNCHANGED <<archive, cache, ledger, users, storage, faults>>

SyncUserStart(p, user_id, folder) ==
    /\ procs[p].pc = "idle"
    /\ nreq < MaxRequests
    /\ nreq' = nreq + 1
    /\ procs' = [procs EXCEPT ![p] =
          [NewProc EXCEPT !.pc = "cleanup", !.kind = "sync_user",
                          !.limit = SyncDefaultLimit,
                          !.user_id = user_id, !.folder = folder, !.pre = Snapshot]]
    /\ UNCHANGED <<archive, cache, ledger, users, storage, faults>>

\* faulty variant: the cleanup error is logged and the resync goes on
CleanupErr_ignored(q) == [Err(q, TRUE, "cleanup") EXCEPT !.pc = "fetch"]
\* if let Err(e) = delete_blobs_by_prefix(..) { return Json(SearchResponse { success: false, .. }) }
CleanupErr(q) == Finish(Err(q, TRUE, "cleanup"), FailedResponse(CleanupFailed))

\* delete_blobs_by_prefix: the listing of the blobs under "{folder}/"
CleanupList(p) ==
    LET q == Phase(procs[p], "cleanup") IN
    /\ procs[p].pc = "cleanup"
    /\ \E failed \in BOOLEAN :
         LET listed == BlobsUnder(archive, q.folder \o <<"/">>) IN
         /\ failed => (storage = "some" /\ faults < MaxFaults)
         /\ faults' = IF failed THEN faults + 1 ELSE faults
         /\ procs' = [procs EXCEPT ![p] =
              IF storage = "none"
              THEN CleanupErr(q)
              ELSE IF failed
              THEN CleanupErr(Call(q, "list"))
              ELSE [Call(q, "list") EXCEPT
                       !.todel = listed,
                       !.pc = IF listed = {} THEN "fetch" ELSE "cleanup_delete"]]
    /\ UNCHANGED <<archive, cache, ledger, users, storage, nreq>>

\* delete_blobs_by_prefix: one blob of the listing is deleted; an error ends the resync
CleanupDelete(p, name) ==
    LET q == procs[p] IN
    /\ q.pc = "cleanup_delete"
    /\ name \in q.todel
    /\ \E failed \in BOOLEAN :
         LET err == failed \/ name \notin DOMAIN archive IN
         /\ failed => (faults < MaxFaults /\ name \in DOMAIN archive)
         /\ faults' = IF failed THEN faults + 1 ELSE faults
         /\ archive' = IF err THEN archive ELSE delete_blob(archive, name)
         /\ procs' = [procs EXCEPT ![p] =
              IF err
              THEN CleanupErr(Call(q, "delete"))
              ELSE [Call(q, "delete") EXCEPT
                       !.todel = @ \ {name},
                       !.pc = IF q.todel = {name} THEN "fetch" ELSE "cleanup_delete"]]
    /\ UNCHANGED <<cache, ledger, users, storage, nreq>>

\* fetch_trending_emotes / fetch_user_emotes answers with a batch
FetchOk(p, batch) ==
    LET q == Call(Phase(procs[p], "fetch"), "fetch") IN
    /\ procs[p].pc = "fetch"
    /\ procs' = [procs EXCEPT ![p] = StartIngest(q, batch)]
    /\ UNCHANGED <<archive, cache, ledger, users, storage, faults, nreq>>

\* faulty variant: a failed catalog request drops the folder's cache entry
FetchErr_invalidates(p) ==
    LET q == Call(Phase(procs[p], "fetch"), "fetch") IN
    /\ procs[p].pc = "fetch"
    /\ procs' = [procs EXCEPT ![p] = Finish(q, FailedResponse(UpstreamFailed))]
    /\ cache' = [k \in DOMAIN cache \ {sync_key(q)} |-> cache[k]]
    /\ UNCHANGED <<archive, ledger, users, storage, faults, nreq>>
\* faulty variant: a failed catalog request is sent a second time
FetchErr_retried(p) ==
    LET q == Call(Phase(procs[p], "fetch"), "fetch") IN
    /\ procs[p].pc = "fetch"
    /\ procs' = [procs EXCEPT ![p] =
          IF q.calls.fetch < 2 THEN q ELSE Finish(q, FailedResponse(UpstreamFailed))]
    /\ UNCHANGED <<archive, cache, ledger, users, storage, faults, nreq>>
\* ... or with an error (non-success status, or a body without the items array)
FetchErr(p) ==
    LET q == Call(Phase(procs[p], "fetch"), "fetch") IN
    /\ procs[p].pc = "fetch"
    /\ procs' = [procs EXCEPT ![p] = Finish(q, FailedResponse(UpstreamFailed))]
    /\ UNCHANGED <<archive, cache, ledger, users, storage, faults, nreq>>

SyncedMessage(kind) ==
    IF kind = "sync_trending" THEN <<"Synced successfully">>
    ELSE <<"User emotes synced successfully">>

\* the Json(SearchResponse { success: true, .. }) a resync ends with
SyncResponse(q) == PageResponse(q.processed, Some(SyncedMessage(q.kind)), FALSE, q.limit)

\* save_to_cache(&sync_key, &processed, ttl); an error is logged and ignored
CacheSave(p) ==
    LET q == Call(Phase(procs[p], "cache_write"), "cache_set") IN
    /\ procs[p].pc = "cache_save"
    /\ \E failed \in BOOLEAN :
         /\ failed => faults < MaxFaults
         /\ faults' = IF failed THEN faults + 1 ELSE faults
         /\ cache' = IF failed THEN cache
                     ELSE save_to_cache(cache, sync_key(q), emotes_to_vec(q.processed),
                                        IF q.kind = "sync_trending" THEN TrendingSyncTtl
                                        ELSE UserSyncTtl)
         /\ procs' = [procs EXCEPT ![p] =
              [Err(q, failed, "cache") EXCEPT
                        !.pc = IF q.kind = "sync_user" THEN "db_users"
                               ELSE IF storage = "none" THEN "db_delete"
                               ELSE "manifest_check"]]
    /\ UNCHANGED <<archive, ledger, users, storage, nreq>>

\* upload_blob(json_data, "{folder}/_metadata.json"): get_properties returns
ManifestCheck(p) ==
    LET q == Call(Phase(procs[p], "manifest_write"), "head") IN
    /\ procs[p].pc = "manifest_check"
    /\ \E failed \in BOOLEAN :
         LET bn == metadata_blob_name(q.folder) IN
         /\ failed => (faults < MaxFaults /\ bn \in DOMAIN archive)
         /\ faults' = IF failed THEN faults + 1 ELSE faults
         /\ procs' = [procs EXCEPT ![p] =
              [Err(q, failed, "head") EXCEPT
                  !.pc = IF get_properties_ok(archive, bn, failed)
                         THEN "db_delete" ELSE "manifest_put"]]
    /\ UNCHANGED <<archive, cache, ledger, users, storage, nreq>>

\* upload_blob(json_data, ...): put_block_blob returns; an error is logged and ignored
ManifestPut(p) ==
    LET q == Call(procs[p], "put") IN
    /\ procs[p].pc = "manifest_put"
    /\ \E failed \in BOOLEAN :
         /\ failed => faults < MaxFaults
         /\ faults' = IF failed THEN faults + 1 ELSE faults
         /\ archive' = IF failed THEN archive
                       ELSE put_block_blob(archive, metadata_blob_name(q.folder),
                                           emotes_to_vec(q.processed),
                                           <<"application/json">>)
         /\ procs' = [procs EXCEPT ![p] =
              [Err(q, failed, "manifest") EXCEPT !.pc = "db_delete"]]
    /\ UNCHANGED <<cache, ledger, users, storage, nreq>>

AfterLedgerStep(q) ==
    IF q.ins < Len(q.processed)
    THEN [q EXCEPT !.pc = "db_insert", !.ins = @ + 1]
    ELSE Finish(q, SyncResponse(q))

\* faulty variant: the DELETE is not issued
DbDelete_not_issued(p) ==
    LET q == Call(Phase(procs[p], "ledger_write"), "db_write") IN
    /\ procs[p].pc = "db_delete"
    /\ \E failed \in BOOLEAN :
         /\ failed => faults < MaxFaults
         /\ faults' = IF failed THEN faults + 1 ELSE faults
         /\ ledger' = ledger
         /\ procs' = [procs EXCEPT ![p] = AfterLedgerStep(Err(q, failed, "db"))]
    /\ UNCHANGED <<archive, cache, users, storage, nreq>>
\* DELETE FROM stickers WHERE folder_name = db_folder; the result is dropped
DbDelete(p) ==
    LET q == Call(Phase(procs[p], "ledger_write"), "db_write") IN
    /\ procs[p].pc = "db_delete"
    /\ \E failed \in BOOLEAN :
         /\ failed => faults < MaxFaults
         /\ faults' = IF failed THEN faults + 1 ELSE faults
         /\ ledger' = IF failed THEN ledger ELSE delete_stickers(ledger, db_folder(q))
         /\ procs' = [procs EXCEPT ![p] = AfterLedgerStep(Err(q, failed, "db"))]
    /\ UNCHANGED <<archive, cache, users, storage, nreq>>

user_display_name(processed) ==
    IF processed # << >> THEN UnwrapOr(processed[1].owner, <<"Unknown">>)
    ELSE <<"Unknown">>

\* faulty variant: the folder's sticker rows are deleted before the upserts
DbUsers_clears_folder(p) ==
    LET q == Call(Phase(procs[p], "ledger_write"), "db_write") IN
    /\ procs[p].pc = "db_users"
    /\ \E failed \in BOOLEAN :
         /\ failed => faults < MaxFaults
         /\ faults' = IF failed THEN faults + 1 ELSE faults
         /\ users' = IF failed THEN users
                     ELSE upsert_user(users,
                            [seven_tv_id |-> q.user_id, folder_name |-> q.folder,
                             display_name |-> user_display_name(q.processed),
                             emote_count |-> Len(q.processed)])
         /\ ledger' = delete_stickers(ledger, db_folder(q))
         /\ procs' = [procs EXCEPT ![p] = AfterLedgerStep(Err(q, failed, "db"))]
    /\ UNCHANGED <<archive, cache, storage, nreq>>
\* INSERT INTO users ... ON CONFLICT (folder_name) DO UPDATE; an error is logged
DbUsers(p) ==
    LET q == Call(Phase(procs[p], "ledger_write"), "db_write") IN
    /\ procs[p].pc = "db_users"
    /\ \E failed \in BOOLEAN :
         /\ failed => faults < MaxFaults
         /\ faults' = IF failed THEN faults + 1 ELSE faults
         /\ users' = IF failed THEN users
                     ELSE upsert_user(users,
                            [seven_tv_id |-> q.user_id, folder_name |-> q.folder,
                             display_name |-> user_display_name(q.processed),
                             emote_count |-> Len(q.processed)])
         /\ procs' = [procs EXCEPT ![p] = AfterLedgerStep(Err(q, failed, "db"))]
    /\ UNCHANGED <<archive, cache, ledger, storage, nreq>>

\* the write of one row of `processed`: a plain INSERT for a trending folder, an
\* upsert for a user folder; the result is dropped
write_sticker(kind, tbl, row) ==
    IF kind = "sync_trending" THEN insert_sticker(tbl, row) ELSE upsert_sticker(tbl, row)

DbInsert(p) ==
    LET q == Call(procs[p], "db_write") IN
    /\ procs[p].pc = "db_insert"
    /\ \E failed \in BOOLEAN :
         /\ failed => faults < MaxFaults
         /\ faults' = IF failed THEN faults + 1 ELSE faults
         /\ ledger' = IF failed THEN ledger
                      ELSE write_sticker(q.kind, ledger,
                                         StickerRow(q.processed[q.ins], db_folder(q)))
         /\ procs' = [procs EXCEPT ![p] = AfterLedgerStep(Err(q, failed, "db"))]
    /\ UNCHANGED <<archive, cache, users, storage, nreq>>

-----------------------------------------------------------------------------
(* routes: synced_trending_emotes_handler, get_saved_user_emotes_handler *)

NoSyncedData == <<"No synced data found in DB or Cache. Please run admin sync.">>
NoSavedEmotes == <<"No saved emotes found for this folder name">>
DatabaseError == <<"Database error: ">>

\* `limit as usize` of an i64: a negative limit wraps to 2^64 + limit (hi = 1)
as_usize(limit) == [hi |-> IF limit < 0 THEN 1 ELSE 0, lo |-> limit]
\* std::cmp::min(0 + limit, total) for a total below 2^63
min_usize(u, total) == IF u.hi = 1 THEN total ELSE Min(u.lo, total)
\* `limit as i32` of a usize: the low 32 bits
usize_as_i32(u) == u.lo

\* faulty variant: the window is not applied
return_whole_response(all_emotes, limit) ==
    PageResponse(all_emotes, None, TRUE, usize_as_i32(limit))
return_paginated_response(all_emotes, limit) ==
    LET total == Len(all_emotes)
        start_index == 0
        end_index == min_usize(limit, total)
        slice == IF start_index < total
                 THEN SubSeq(all_emotes, start_index + 1, end_index) ELSE << >>
    IN  PageResponse(slice, None, TRUE, usize_as_i32(limit))

\* the SELECT ... LIMIT $2 of a read: Err when the call fails or the limit is
\* negative, else one of the row sequences the query may answer with
QueryResults(tbl, folder, limit, failed) ==
    IF failed \/ limit < 0 THEN {None}
    ELSE {Some(rows) : rows \in select_stickers(tbl, folder, limit)}

RowsResponse(rows, limit) == PageResponse(MapSeq(row_to_emote, rows), None, FALSE, limit)

\* the handler up to the answer of the ledger query
SyncedRead(p, period, limit_in, animated, emote_type) ==
    /\ procs[p].pc = "idle"
    /\ LET limit == UnwrapOr(limit_in, SyncedDefaultLimit)
           animated_only == UnwrapOr(animated, FALSE) \/ emote_type = Some(<<"animated">>)
           period_str == UnwrapOr(period, DefaultPeriod)
           q == Call([NewProc EXCEPT !.kind = "synced_read", !.limit = limit,
                                     !.period_str = period_str,
                                     !.animated_only = animated_only,
                                     !.pre = Snapshot], "db_read")
       IN  \E failed \in BOOLEAN :
             /\ failed => faults < MaxFaults
             /\ faults' = IF failed THEN faults + 1 ELSE faults
             /\ \E rows \in QueryResults(ledger, db_folder(q), limit, failed) :
                  procs' = [procs EXCEPT ![p] =
                     IF rows # None /\ rows[1] # << >>
                     THEN Finish(Phase(q, "ledger"), RowsResponse(rows[1], limit))
                     ELSE [Err(q, rows = None, "db") EXCEPT !.pc = "cache_get"]]
    /\ UNCHANGED <<archive, cache, ledger, users, storage, nreq>>

\* faulty variant: a cache error is reported to the caller instead of being a miss
SyncedReadCache_error_surfaced(p) ==
    LET q == Call(procs[p], "cache_get") IN
    /\ procs[p].pc = "cache_get"
    /\ \E failed \in BOOLEAN :
         LET cached_data == get_from_cache(cache, sync_key(q), failed)
             all_emotes == IF cached_data = None THEN None
                           ELSE emotes_from_slice(cached_data[1])
         IN
         /\ failed => (faults < MaxFaults /\ sync_key(q) \in DOMAIN cache)
         /\ faults' = IF failed THEN faults + 1 ELSE faults
         /\ procs' = [procs EXCEPT ![p] =
              IF all_emotes # None
              THEN Finish(Phase(q, "cache"),
                          return_paginated_response(all_emotes[1], as_usize(q.limit)))
              ELSE IF failed
              THEN Finish(Err(q, failed, "cache"), FailedResponse(<<"Cache error: ">>))
              ELSE Finish(q, FailedResponse(NoSyncedData))]
    /\ UNCHANGED <<archive, cache, ledger, users, storage, nreq>>
\* the fallback to the sync key
SyncedReadCache(p) ==
    LET q == Call(procs[p], "cache_get") IN
    /\ procs[p].pc = "cache_get"
    /\ \E failed \in BOOLEAN :
         LET cached_data == get_from_cache(cache, sync_key(q), failed)
             all_emotes == IF cached_data = None THEN None
                           ELSE emotes_from_slice(cached_data[1])
         IN
         /\ failed => (faults < MaxFaults /\ sync_key(q) \in DOMAIN cache)
         /\ faults' = IF failed THEN faults + 1 ELSE faults
         /\ procs' = [procs EXCEPT ![p] =
              IF all_emotes # None
              THEN Finish(Phase(q, "cache"),
                          return_paginated_response(all_emotes[1], as_usize(q.limit)))
              ELSE Finish(Err(q, failed, "cache"), FailedResponse(NoSyncedData))]
    /\ UNCHANGED <<archive, cache, ledger, users, storage, nreq>>

SavedUserRead(p, folder, limit_in) ==
    /\ procs[p].pc = "idle"
    /\ LET limit == UnwrapOr(limit_in, SavedDefaultLimit)
           q == Call([NewProc EXCEPT !.kind = "saved_read", !.limit = limit,
                                     !.folder = folder, !.pre = Snapshot], "db_read")
       IN  \E failed \in BOOLEAN :
             /\ failed => faults < MaxFaults
             /\ faults' = IF failed THEN faults + 1 ELSE faults
             /\ \E rows \in QueryResults(ledger, folder, limit, failed) :
                  procs' = [procs EXCEPT ![p] =
                     IF rows = None
                     THEN Finish(Err(q, TRUE, "db"), FailedResponse(DatabaseError))
                     ELSE IF rows[1] # << >>
                     THEN Finish(Phase(q, "ledger"), RowsResponse(rows[1], limit))
                     ELSE Finish(q, FailedResponse(NoSavedEmotes))]
    /\ UNCHANGED <<archive, cache, ledger, users, storage, nreq>>

-----------------------------------------------------------------------------
(* routes: search_emotes_handler and trending_emotes_handler *)

SearchFolder == <<"emotes">>
TrendingFolder == <<"trending-emotes">>

IsAdhoc(q) == q.kind \in {"adhoc_search", "adhoc_trending"}

\* the cache key of an ad-hoc request
cache_key(q) ==
    IF q.kind = "adhoc_search"
    THEN get_cache_key(q.query, q.limit, q.animated_only)
    ELSE get_trending_cache_key(q.period_str, q.limit, 1, q.animated_only)

\* the lookup both handlers start with: a payload that deserializes is returned with
\* cached = Some(true), anything else falls through to the catalog fetch
AdhocLookup(p, q) ==
    \E failed \in BOOLEAN :
        LET cached_data == get_from_cache(cache, cache_key(q), failed)
            response == IF cached_data = None THEN None
                        ELSE response_from_slice(cached_data[1])
        IN  /\ failed => (faults < MaxFaults /\ cache_key(q) \in DOMAIN cache)
            /\ faults' = IF failed THEN faults + 1 ELSE faults
            /\ response = None => nreq < MaxRequests
            /\ nreq' = IF response = None THEN nreq + 1 ELSE nreq
            /\ procs' = [procs EXCEPT ![p] =
                 IF response # None
                 THEN Finish(Phase(q, "cache"), [response[1] EXCEPT !.cached = Some(TRUE)])
                 ELSE [Err(q, failed, "cache") EXCEPT !.pc = "fetch"]]

AdhocSearch(p, query, limit_in, page_in, animated) ==
    /\ procs[p].pc = "idle"
    /\ AdhocLookup(p, Call([NewProc EXCEPT
                               !.kind = "adhoc_search", !.query = query,
                               !.limit = UnwrapOr(limit_in, AdhocDefaultLimit),
                               !.page = UnwrapOr(page_in, DefaultPage),
                               !.animated_only = UnwrapOr(animated, FALSE),
                               !.folder = SearchFolder, !.pre = Snapshot], "cache_get"))
    /\ UNCHANGED <<archive, cache, ledger, users, storage>>

AdhocTrending(p, period, limit_in, animated, emote_type) ==
    /\ procs[p].pc = "idle"
    /\ AdhocLookup(p, Call([NewProc EXCEPT
                               !.kind = "adhoc_trending",
                               !.limit = UnwrapOr(limit_in, AdhocDefaultLimit),
                               !.page = 1,
                               !.animated_only = UnwrapOr(animated, FALSE)
                                                   \/ emote_type = Some(<<"animated">>),
                               !.period_str = UnwrapOr(period, DefaultPeriod),
                               !.folder = TrendingFolder, !.pre = Snapshot], "cache_get"))
    /\ UNCHANGED <<archive, cache, ledger, users, storage>>

\* faulty variant: a batch that lost all its records is reported as a failure
AdhocResponse_empty_is_failure(q) ==
    IF q.processed = << >> /\ q.batch # << >>
    THEN FailedResponse(<<"No emotes could be processed">>)
    ELSE [PageResponse(q.processed, None, FALSE, q.limit) EXCEPT !.page = Some(q.page)]
\* the SearchResponse { success: true, .. } built from the ingested batch
AdhocResponse(q) ==
    [PageResponse(q.processed, None, FALSE, q.limit) EXCEPT !.page = Some(q.page)]

\* faulty variant: the response is returned without being stored
AdhocSave_not_stored(p) ==
    LET q == Call(Phase(procs[p], "cache_write"), "cache_set") IN
    /\ procs[p].pc = "adhoc_save"
    /\ \E failed \in BOOLEAN :
         /\ failed => faults < MaxFaults
         /\ faults' = IF failed THEN faults + 1 ELSE faults
         /\ cache' = cache
         /\ procs' = [procs EXCEPT ![p] =
              Finish(Err(q, failed, "cache_set"), AdhocResponse(q))]
    /\ UNCHANGED <<archive, ledger, users, storage, nreq>>
\* let _ = save_to_cache(&cache_key, &response, ttl); Json(response)
AdhocSave(p) ==
    LET q == Call(Phase(procs[p], "cache_write"), "cache_set") IN
    /\ procs[p].pc = "adhoc_save"
    /\ \E failed \in BOOLEAN :
         /\ failed => faults < MaxFaults
         /\ faults' = IF failed THEN faults + 1 ELSE faults
         /\ cache' = IF failed THEN cache
                     ELSE save_to_cache(cache, cache_key(q),
                                        response_to_vec(AdhocResponse(q)),
                                        IF q.kind = "adhoc_search" THEN CacheTtl
                                        ELSE TrendingCacheTtl)
         /\ procs' = [procs EXCEPT ![p] =
              Finish(Err(q, failed, "cache_set"), AdhocResponse(q))]
    /\ UNCHANGED <<archive, ledger, users, storage, nreq>>

-----------------------------------------------------------------------------
(* The environment *)

\* the response is sent and the request is over
Respond(p) ==
    /\ procs[p].pc = "done"
    /\ procs' = [procs EXCEPT ![p] = NewProc]
    /\ UNCHANGED <<archive, cache, ledger, users, storage, faults, nreq>>

\* a cache entry reaches its TTL (a day or more: no request is in progress that long)
Expire(key) ==
    /\ Idle
    /\ key \in DOMAIN cache
    /\ cache' = [k \in DOMAIN cache \ {key} |-> cache[k]]
    /\ UNCHANGED <<archive, ledger, users, procs, storage, faults, nreq>>

-----------------------------------------------------------------------------
(* The service: one request at a time *)

Init ==
    /\ archive = << >>
    /\ cache = << >>
    /\ ledger = {}
    /\ users = {}
    /\ procs = [p \in {1} |-> NewProc]
    /\ storage \in {"some", "none"}
    /\ faults = 0
    /\ nreq = 0

Slots == DOMAIN procs
Positions == 1..(MaxIngestBatch + 1)

Next ==
    \/ \E p \in Slots, period \in PeriodInputs, animated \in FlagInputs :
          SyncTrendingStart(p, period, animated)
    \/ \E p \in Slots, user_id \in UserIds, folder \in UserFolders :
          SyncUserStart(p, user_id, folder)
    \/ \E p \in Slots : CleanupList(p)
    \/ \E p \in Slots, name \in DOMAIN archive : CleanupDelete(p, name)
    \/ \E p \in Slots, batch \in SvcBatches : FetchOk(p, batch)
    \/ \E p \in Slots : FetchErr(p)
    \/ \E p \in Slots : PollNext(p)
    \/ \E p \in Slots, i \in Positions : DownloadDone(p, i)
    \/ \E p \in Slots, i \in Positions : UploadCheck(p, i)
    \/ \E p \in Slots, i \in Positions : UploadPut(p, i)
    \/ \E p \in Slots : IngestReturn(p)
    \/ \E p \in Slots : CacheSave(p)
    \/ \E p \in Slots : ManifestCheck(p)
    \/ \E p \in Slots : ManifestPut(p)
    \/ \E p \in Slots : DbDelete(p)
    \/ \E p \in Slots : DbUsers(p)
    \/ \E p \in Slots : DbInsert(p)
    \/ \E p \in Slots, period \in PeriodInputs, limit \in LimitInputs,
          animated \in FlagInputs, emote_type \in EmoteTypeInputs :
          SyncedRead(p, period, limit, animated, emote_type)
    \/ \E p \in Slots : SyncedReadCache(p)
    \/ \E p \in Slots, folder \in UserFolders, limit \in LimitInputs :
          SavedUserRead(p, folder, limit)
    \/ \E p \in Slots : Respond(p)
    \/ \E key \in DOMAIN cache : Expire(key)

Spec == Init /\ [][Next]_vars

-----------------------------------------------------------------------------
(* The ingestion pipeline alone: search_emotes_handler has fetched a batch and *)
(* calls process_emotes_batch(emotes, "emotes")                                *)

InitIngest ==
    /\ archive = << >>
    /\ cache = << >>
    /\ ledger = {}
    /\ users = {}
    /\ storage \in {"some", "none"}
    /\ faults = 0
    /\ nreq = 0
    /\ \E batch \in IngestBatches :
         procs = [p \in {1} |->
                    StartIngest([NewProc EXCEPT !.kind = "search",
                                                !.folder = SearchFolder], batch)]

NextIngest ==
    \/ \E p \in Slots : PollNext(p)
    \/ \E p \in Slots, i \in Positions : DownloadDone(p, i)
    \/ \E p \in Slots, i \in Positions : UploadCheck(p, i)
    \/ \E p \in Slots, i \in Positions : UploadPut(p, i)
    \/ \E p \in Slots : IngestReturn(p)

SpecIngest == InitIngest /\ [][NextIngest]_vars
\* the pipeline under the proviso that every image request and every archive call
\* eventually returns and that the runtime keeps polling the stream: a step that is
\* possible is eventually taken
SpecIngestFair == InitIngest /\ [][NextIngest]_vars /\ WF_vars(NextIngest)


-----------------------------------------------------------------------------
(* process_emotes_batch on one record, for every variant list up to MaxVariants *)

InitSelect ==
    /\ archive = << >>
    /\ cache = << >>
    /\ ledger = {}
    /\ users = {}
    /\ storage \in {"some", "none"}
    /\ faults = 0
    /\ nreq = 0
    /\ \E list \in VariantLists :
         procs = [p \in {1} |->
                    StartIngest([NewProc EXCEPT !.kind = "search",
                                                !.folder = SearchFolder],
                                <<RecVariants(list)>>)]

SpecSelect == InitSelect /\ [][NextIngest]_vars

-----------------------------------------------------------------------------
(* process_emotes_batch on one record of the trending shape: no images list, a    *)
(* host with up to MaxHostFiles files, the animated flag absent, true or false    *)

InitDerive ==
    /\ archive = << >>
    /\ cache = << >>
    /\ ledger = {}
    /\ users = {}
    /\ storage \in {"some", "none"}
    /\ faults = 0
    /\ nreq = 0
    /\ \E files \in SeqsUpTo(HostFileChoices, MaxHostFiles),
            animated \in {None, Some(TRUE), Some(FALSE)} :
         procs = [p \in {1} |->
                    StartIngest([NewProc EXCEPT !.kind = "search", !.folder = SearchFolder],
                                <<[id |-> <<"9">>, default_name |-> None,
                                   name |-> Some(<<"k">>), owner |-> None, images |-> None,
                                   host |-> Some([url |-> <<"//cdn/9">>, files |-> files]),
                                   animated |-> animated]>>)]

SpecDerive == InitDerive /\ [][NextIngest]_vars

-----------------------------------------------------------------------------
(* The whole router: the ad-hoc handlers beside the resyncs and the reads, the *)
(* catalog answering with at most MaxServiceBatch records                       *)

ServiceBatches == SeqsUpTo(SvcRecords \cup {RecBare}, MaxServiceBatch)

NextService ==
    \/ \E p \in Slots, query \in QueryInputs, limit \in AdhocLimitInputs,
          page \in PageInputs, animated \in FlagInputs :
          AdhocSearch(p, query, limit, page, animated)
    \/ \E p \in Slots, period \in PeriodInputs, limit \in AdhocLimitInputs,
          animated \in FlagInputs, emote_type \in EmoteTypeInputs :
          AdhocTrending(p, period, limit, animated, emote_type)
    \/ \E p \in Slots : AdhocSave(p)
    \/ \E p \in Slots, period \in PeriodInputs, animated \in FlagInputs :
          SyncTrendingStart(p, period, animated)
    \/ \E p \in Slots, user_id \in UserIds, folder \in UserFolders :
          SyncUserStart(p, user_id, folder)
    \/ \E p \in Slots : CleanupList(p)
    \/ \E p \in Slots, name \in DOMAIN archive : CleanupDelete(p, name)
    \/ \E p \in Slots, batch \in ServiceBatches : FetchOk(p, batch)
    \/ \E p \in Slots : FetchErr(p)
    \/ \E p \in Slots : PollNext(p)
    \/ \E p \in Slots, i \in Positions : DownloadDone(p, i)
    \/ \E p \in Slots, i \in Positions : UploadCheck(p, i)
    \/ \E p \in Slots, i \in Positions : UploadPut(p, i)
    \/ \E p \in Slots : IngestReturn(p)
    \/ \E p \in Slots : CacheSave(p)
    \/ \E p \in Slots : ManifestCheck(p)
    \/ \E p \in Slots : ManifestPut(p)
    \/ \E p \in Slots : DbDelete(p)
    \/ \E p \in Slots : DbUsers(p)
    \/ \E p \in Slots : DbInsert(p)
    \/ \E p \in Slots, period \in PeriodInputs, limit \in LimitInputs,
          animated \in FlagInputs, emote_type \in EmoteTypeInputs :
          SyncedRead(p, period, limit, animated, emote_type)
    \/ \E p \in Slots : SyncedReadCache(p)
    \/ \E p \in Slots, folder \in UserFolders, limit \in LimitInputs :
          SavedUserRead(p, folder, limit)
    \/ \E p \in Slots : Respond(p)
    \/ \E key \in DOMAIN cache : Expire(key)

SpecService == Init /\ [][NextService]_vars

-----------------------------------------------------------------------------
(* The resync handlers alone, the catalog listing one emote in changing forms *)

NextLedger ==
    \/ \E p \in Slots, period \in PeriodInputs, animated \in FlagInputs :
          SyncTrendingStart(p, period, animated)
    \/ \E p \in Slots, user_id \in UserIds, folder \in UserFolders :
          SyncUserStart(p, user_id, folder)
    \/ \E p \in Slots : CleanupList(p)
    \/ \E p \in Slots, name \in DOMAIN archive : CleanupDelete(p, name)
    \/ \E p \in Slots, batch \in LedgerBatches : FetchOk(p, batch)
    \/ \E p \in Slots : FetchErr(p)
    \/ \E p \in Slots : PollNext(p)
    \/ \E p \in Slots, i \in Positions : DownloadDone(p, i)
    \/ \E p \in Slots, i \in Positions : UploadCheck(p, i)
    \/ \E p \in Slots, i \in Positions : UploadPut(p, i)
    \/ \E p \in Slots : IngestReturn(p)
    \/ \E p \in Slots : CacheSave(p)
    \/ \E p \in Slots : ManifestCheck(p)
    \/ \E p \in Slots : ManifestPut(p)
    \/ \E p \in Slots : DbDelete(p)
    \/ \E p \in Slots : DbUsers(p)
    \/ \E p \in Slots : DbInsert(p)
    \/ \E p \in Slots : Respond(p)

SpecLedger == Init /\ [][NextLedger]_vars

-----------------------------------------------------------------------------
(* Two resyncs at a time: the handlers are async fns on a multi-threaded runtime *)
(* and share the stores through AppState                                        *)

InitConcurrent ==
    /\ archive = << >>
    /\ cache = << >>
    /\ ledger = {}
    /\ users = {}
    /\ procs = [p \in {1, 2} |-> NewProc]
    /\ storage = "some"
    /\ faults = 0
    /\ nreq = 0

NextConcurrent ==
    \/ \E p \in Slots, period \in PeriodInputs, animated \in FlagInputs :
          SyncTrendingStart(p, period, animated)
    \/ \E p \in Slots, user_id \in UserIds, folder \in UserFolders :
          SyncUserStart(p, user_id, folder)
    \/ \E p \in Slots : CleanupList(p)
    \/ \E p \in Slots, name \in DOMAIN archive : CleanupDelete(p, name)
    \/ \E p \in Slots, batch \in ServiceBatches : FetchOk(p, batch)
    \/ \E p \in Slots : FetchErr(p)
    \/ \E p \in Slots : PollNext(p)
    \/ \E p \in Slots, i \in Positions : DownloadDone(p, i)
    \/ \E p \in Slots, i \in Positions : UploadCheck(p, i)
    \/ \E p \in Slots, i \in Positions : UploadPut(p, i)
    \/ \E p \in Slots : IngestReturn(p)
    \/ \E p \in Slots : CacheSave(p)
    \/ \E p \in Slots : ManifestCheck(p)
    \/ \E p \in Slots : ManifestPut(p)
    \/ \E p \in Slots : DbDelete(p)
    \/ \E p \in Slots : DbUsers(p)
    \/ \E p \in Slots : DbInsert(p)
    \/ \E p \in Slots : Respond(p)

SpecConcurrent == InitConcurrent /\ [][NextConcurrent]_vars

-----------------------------------------------------------------------------
(* Requests one after the other, the finished ones kept on record: slot 1 holds  *)
(* the first request of the behaviour, slot 2 the second, slot 3 the third       *)

InitSequence ==
    /\ archive = << >>
    /\ cache = << >>
    /\ ledger = {}
    /\ users = {}
    /\ procs = [p \in {1, 2, 3} |-> NewProc]
    /\ storage \in {"some", "none"}
    /\ faults = 0
    /\ nreq = 0

\* slot p is the next one to be used and no request is in progress
Turn(p) ==
    /\ \A o \in DOMAIN procs : procs[o].pc \in {"idle", "done"}
    /\ \A o \in DOMAIN procs : o < p => procs[o].pc = "done"

NextSequence ==
    \/ \E p \in Slots, period \in PeriodInputs, animated \in FlagInputs :
          Turn(p) /\ SyncTrendingStart(p, period, animated)
    \/ \E p \in Slots, user_id \in UserIds, folder \in UserFolders :
          Turn(p) /\ SyncUserStart(p, user_id, folder)
    \/ \E p \in Slots : CleanupList(p)
    \/ \E p \in Slots, name \in DOMAIN archive : CleanupDelete(p, name)
    \/ \E p \in Slots, batch \in ServiceBatches : FetchOk(p, batch)
    \/ \E p \in Slots : FetchErr(p)
    \/ \E p \in Slots : PollNext(p)
    \/ \E p \in Slots, i \in Positions : DownloadDone(p, i)
    \/ \E p \in Slots, i \in Positions : UploadCheck(p, i)
    \/ \E p \in Slots, i \in Positions : UploadPut(p, i)
    \/ \E p \in Slots : IngestReturn(p)
    \/ \E p \in Slots : CacheSave(p)
    \/ \E p \in Slots : ManifestCheck(p)
    \/ \E p \in Slots : ManifestPut(p)
    \/ \E p \in Slots : DbDelete(p)
    \/ \E p \in Slots : DbUsers(p)
    \/ \E p \in Slots : DbInsert(p)
    \/ \E p \in Slots, period \in PeriodInputs, limit \in AdhocLimitInputs,
          animated \in FlagInputs, emote_type \in EmoteTypeInputs :
          Turn(p) /\ SyncedRead(p, period, limit, animated, emote_type)
    \/ \E p \in Slots : SyncedReadCache(p)
    \/ \E p \in Slots, folder \in UserFolders, limit \in AdhocLimitInputs :
          Turn(p) /\ SavedUserRead(p, folder, limit)

SpecSequence == InitSequence /\ [][NextSequence]_vars

-----------------------------------------------------------------------------
(* Two ad-hoc requests at a time: search_emotes_handler and                     *)
(* trending_emotes_handler run on the same multi-threaded runtime and share the *)
(* cache and the archive through AppState                                       *)

NextAdhoc ==
    \/ \E p \in Slots, query \in QueryInputs, limit \in AdhocLimitInputs,
          page \in AdhocPageInputs, animated \in FlagInputs :
          AdhocSearch(p, query, limit, page, animated)
    \/ \E p \in Slots, period \in PeriodInputs, limit \in AdhocLimitInputs,
          animated \in FlagInputs, emote_type \in EmoteTypeInputs :
          AdhocTrending(p, period, limit, animated, emote_type)
    \/ \E p \in Slots, batch \in ServiceBatches : FetchOk(p, batch)
    \/ \E p \in Slots : FetchErr(p)
    \/ \E p \in Slots : PollNext(p)
    \/ \E p \in Slots, i \in Positions : DownloadDone(p, i)
    \/ \E p \in Slots, i \in Positions : UploadCheck(p, i)
    \/ \E p \in Slots, i \in Positions : UploadPut(p, i)
    \/ \E p \in Slots : IngestReturn(p)
    \/ \E p \in Slots : AdhocSave(p)
    \/ \E p \in Slots : Respond(p)

SpecAdhoc == InitConcurrent /\ [][NextAdhoc]_vars



-----------------------------------------------------------------------------
(* Properties of the ingestion pipeline (checked under SpecIngest) *)

\* C7 -- Bounded concurrency: at every moment of an ingest, whatever the size of the
\* batch, at most 5 per-record pipelines (a record between the start of its download
\* and the end of its upload) are in flight.
C7_BoundedConcurrency ==
    \A p \in DOMAIN procs :
        Cardinality({i \in 1..Len(procs[p].st) :
                        procs[p].st[i] \in {"download", "check", "put"}}) <= 5

\* five pipelines in flight while a sixth record waits for a slot
C7_Witness ==
    \E p \in DOMAIN procs :
        /\ Cardinality(InFlight(procs[p])) = 5
        /\ Unpolled(procs[p]) # {}

\* the outcome of record i's own pipeline: it has an image source with at least one
\* variant, its download succeeded, it has a display name and its upload succeeded
C8_HasSource(e) == e.images # None \/ e.host # None
C8_OwnSuccess(q, i) ==
    /\ C8_HasSource(q.batch[i])
    /\ emote_images(q.batch[i])[1] # << >>
    /\ q.dl[i] = "ok"
    /\ emote_display_name(q.batch[i]) # None
    /\ q.up[i] \in {"exists", "stored"}
C8_Kept(q) == {i \in 1..Len(q.batch) : C8_OwnSuccess(q, i)}
C8_Dropped(q) == {i \in 1..Len(q.batch) : ~C8_OwnSuccess(q, i)}

\* C8 -- Independent per-record processing: when ingest returns, its output holds
\* exactly one asset for each record whose own pipeline succeeded and none for a
\* record whose pipeline failed (so its length is the input length minus the number
\* of dropped records), whatever happened to the other records of the batch; a record
\* with neither an images list nor a host is dropped.
C8_IndependentRecords ==
    \A p \in DOMAIN procs :
        LET q == procs[p] IN
        q.pc = "returned" =>
            /\ Len(q.processed) = Len(q.batch) - Cardinality(C8_Dropped(q))
            /\ \A i \in 1..Len(q.batch) :
                 Cardinality({k \in 1..Len(q.processed) :
                                 q.processed[k].emote_id = q.batch[i].id})
                   = Cardinality({j \in C8_Kept(q) : q.batch[j].id = q.batch[i].id})
            /\ \A i \in 1..Len(q.batch) :
                 ~C8_HasSource(q.batch[i]) => i \in C8_Dropped(q)

\* a batch of two returned one asset: a record without image source was dropped and
\* the other record was kept
C8_Witness ==
    \E p \in DOMAIN procs :
        LET q == procs[p] IN
        /\ q.pc = "returned"
        /\ Len(q.batch) = 2
        /\ Len(q.processed) = 1
        /\ \E i \in 1..2 : ~C8_HasSource(q.batch[i])

\* the extension mapping as the specification states it
C9_Extension(mime) ==
    CASE mime = <<"image/", "webp">> -> <<".webp">>
      [] mime = <<"image/", "gif">> -> <<".gif">>
      [] mime = <<"image/", "avif">> -> <<".avif">>
      [] OTHER -> <<".png">>
C9_FileName(a) == safe_name(a.emote_name) \o <<"_">> \o a.emote_id \o C9_Extension(a.mime[1])
C9_BlobPath(folder, a) == folder \o <<"/">> \o C9_FileName(a)

\* C9 -- Deterministic naming without duplicates: every asset ingest produces is named
\* sanitize(displayName) + "_" + externalId + extension (.webp, .gif, .avif for
\* image/webp, image/gif, image/avif, .png for any other MIME) and stored at
\* {folder}/{fileName}; a record ingested twice gets the same name and path both
\* times, and the archive holds one blob per path: its blobs are exactly the paths of
\* the assets produced.
C9_DeterministicNaming ==
    \A p \in DOMAIN procs :
        LET q == procs[p] IN
        /\ \A k \in 1..Len(q.out) :
             /\ q.out[k].file_name = C9_FileName(q.out[k])
             /\ q.out[k].url = blob_url(C9_BlobPath(q.folder, q.out[k]))
        /\ \A i, j \in 1..Len(q.batch) :
             (i # j /\ q.batch[i] = q.batch[j] /\ q.st[i] = "some" /\ q.st[j] = "some") =>
                (/\ Cardinality({k \in 1..Len(q.out) :
                                    q.out[k].emote_id = q.batch[i].id}) >= 2
                 /\ \A k, l \in 1..Len(q.out) :
                      (/\ q.out[k].emote_id = q.batch[i].id
                       /\ q.out[l].emote_id = q.batch[i].id)
                        => (/\ q.out[k].file_name = q.out[l].file_name
                            /\ q.out[k].url = q.out[l].url))
        /\ DOMAIN archive = {C9_BlobPath(q.folder, q.out[k]) : k \in 1..Len(q.out)}

\* the same record ingested twice, both kept, one blob in the archive
C9_Witness ==
    \E p \in DOMAIN procs :
        LET q == procs[p] IN
        /\ q.pc = "returned"
        /\ Len(q.batch) = 2
        /\ q.batch[1] = q.batch[2]
        /\ Len(q.processed) = 2
        /\ Cardinality(DOMAIN archive) = 1

\* upload_blob(data, blob_name, ..) of record i: the target path, the supplied bytes
\* with their content type, and the URL it returns
C10_Path(q, i) == emote_blob_name(q.folder, q.batch[i])
C10_Supplied(q, i) ==
    [data |-> image_bytes(best_image(q.batch[i]).url),
     content_type |-> best_image(q.batch[i]).mime]
C10_Returned(q, i) ==
    /\ q.st[i] = "some"
    /\ q.out # << >>
    /\ q.out[Len(q.out)].url = blob_url(C10_Path(q, i))
\* the step in which the existence check, resp. the PUT, of record i returns
C10_CheckReturns(p, i) ==
    /\ i \in 1..Len(procs[p].st)
    /\ procs[p].st[i] = "check"
    /\ procs'[p].st[i] # "check"
C10_PutReturns(p, i) ==
    /\ i \in 1..Len(procs[p].st)
    /\ procs[p].st[i] = "put"
    /\ procs'[p].st[i] # "put"

\* C10 -- Idempotent upload, as stated: when a blob already exists at the target path,
\* upload performs no PUT, leaves the blob's content unchanged (even if the supplied
\* bytes differ) and returns the URL of the existing blob; when no blob exists at the
\* path, it stores the supplied bytes there (the PUT request itself succeeding) and
\* returns the same URL form.
C10_IdempotentUpload ==
    [][\A p \in DOMAIN procs, i \in Positions :
          LET q == procs[p]
              r == procs'[p]
          IN  /\ (C10_CheckReturns(p, i) /\ C10_Path(q, i) \in DOMAIN archive) =>
                    /\ r.calls.put = q.calls.put
                    /\ archive' = archive
                    /\ C10_Returned(r, i)
              /\ (C10_CheckReturns(p, i) /\ C10_Path(q, i) \notin DOMAIN archive) =>
                    r.st[i] = "put"
              /\ (/\ C10_PutReturns(p, i)
                  /\ C10_Path(q, i) \notin DOMAIN archive
                  /\ faults' = faults) =>
                    /\ C10_Path(q, i) \in DOMAIN archive'
                    /\ archive'[C10_Path(q, i)] = C10_Supplied(q, i)
                    /\ C10_Returned(r, i)]_vars

\* C10 -- Upload by the result of the existence check (the amended statement): when
\* the existence check succeeds (the blob exists and the call does not fail), upload
\* performs no PUT, leaves the archive unchanged and returns the URL of the existing
\* blob; when the check returns an error (no blob at the path, or a failed call on an
\* existing blob), upload PUTs the supplied bytes; a PUT that succeeds stores exactly
\* the supplied bytes at the path, overwriting what was there and touching no other
\* blob, and returns the same URL form; a PUT that fails stores nothing and upload
\* returns an error.
C10_UploadByCheckResult ==
    [][\A p \in DOMAIN procs, i \in Positions :
          LET q == procs[p]
              r == procs'[p]
              call_failed == faults' # faults
          IN  /\ C10_CheckReturns(p, i) =>
                    IF C10_Path(q, i) \in DOMAIN archive /\ ~call_failed
                    THEN /\ r.calls.put = q.calls.put
                         /\ archive' = archive
                         /\ C10_Returned(r, i)
                    ELSE /\ r.st[i] = "put"
                         /\ r.calls.put = q.calls.put + 1
                         /\ archive' = archive
              /\ C10_PutReturns(p, i) =>
                    IF ~call_failed
                    THEN /\ DOMAIN archive' = DOMAIN archive \cup {C10_Path(q, i)}
                         /\ archive'[C10_Path(q, i)] = C10_Supplied(q, i)
                         /\ \A n \in DOMAIN archive \ {C10_Path(q, i)} :
                              archive'[n] = archive[n]
                         /\ C10_Returned(r, i)
                    ELSE /\ archive' = archive
                         /\ r.st[i] = "none"
                         /\ r.out = q.out]_vars

\* an upload found a blob holding other bytes than the supplied ones and left it alone
C10_Witness ==
    \E p \in DOMAIN procs :
        \E i \in 1..Len(procs[p].st) :
            /\ procs[p].up[i] = "exists"
            /\ C10_Path(procs[p], i) \in DOMAIN archive
            /\ archive[C10_Path(procs[p], i)].data # C10_Supplied(procs[p], i).data

-----------------------------------------------------------------------------
(* Properties of the resync and read handlers (checked under Spec) *)

IsResync(q) == q.kind \in {"sync_trending", "sync_user"}
\* the resync has returned success: true and none of its store calls failed
CompletedResync(q) ==
    /\ IsResync(q)
    /\ q.pc = "done"
    /\ q.resp[1].success
CleanResync(q) == CompletedResync(q) /\ q.errs = {}

AssetBlobs(q) ==
    {q.folder \o <<"/">> \o q.processed[k].file_name : k \in 1..Len(q.processed)}
ManifestBlob(q) == q.folder \o <<"/", "_metadata.json">>

\* C1 -- Destructive resync of the archive: after a resync (trending-sync or user-sync)
\* of a folder completes successfully, the blob names under folder + "/" are exactly
\* the file names of the assets that resync produced plus the manifest
\* {folder}/_metadata.json: no blob from before remains, no other blob is present.
\* (Stated for resyncs none of whose store calls failed.)
C1_DestructiveResync ==
    \A p \in DOMAIN procs :
        LET q == procs[p] IN
        CleanResync(q) =>
            BlobsUnder(archive, q.folder \o <<"/">>) = AssetBlobs(q) \cup {ManifestBlob(q)}

\* the folder a synced read of (period, animated flag) is about
ReadFolder(q) ==
    <<"trending", "/">> \o q.period_str \o <<"/">>
        \o (IF q.animated_only THEN <<"animated">> ELSE <<"static">>)
ReadManifest(q) == ReadFolder(q) \o <<"/", "_metadata.json">>

\* C2 -- Read-repair: when the ledger has no rows for the folder and the cache has no
\* entry under the folder's sync key, but the archive holds a deserializable manifest
\* at {folder}/_metadata.json, a synced read returns the manifest's records (here: a
\* successful response whose emotes are the first `limit` records of a non-empty
\* manifest), and afterwards a lookup of the sync key yields the manifest's list.
C2_ReadRepair ==
    \A p \in DOMAIN procs :
        LET q == procs[p] IN
        (/\ q.kind = "synced_read"
         /\ q.pc = "done"
         /\ q.errs = {}
         /\ q.limit >= 1
         /\ RowsOf(q.pre[1].ledger, db_folder(q)) = {}
         /\ sync_key(q) \notin DOMAIN q.pre[1].cache
         /\ ReadManifest(q) \in DOMAIN q.pre[1].archive
         /\ emotes_from_slice(q.pre[1].archive[ReadManifest(q)].data) \notin {None, Some(<< >>)})
        => LET manifest == emotes_from_slice(q.pre[1].archive[ReadManifest(q)].data)[1]
           IN  /\ q.resp[1].success
               /\ q.resp[1].emotes = SubSeq(manifest, 1, Min(q.limit, Len(manifest)))
               /\ sync_key(q) \in DOMAIN cache
               /\ emotes_from_slice(cache[sync_key(q)].bytes) = Some(manifest)

\* what identifies an asset in each tier
AssetKey(a) == <<a.emote_id, a.file_name>>
ProducedKeys(q) == {AssetKey(q.processed[k]) : k \in 1..Len(q.processed)}

\* C3 -- Full replacement in all three tiers: after a resync of a trending or user
\* folder completes successfully with no store failure, the folder's ledger rows, its
\* sync-key cache entry and its archive asset blobs describe exactly the assets that
\* resync produced; nothing present only before the resync remains in any tier.
C3_FullReplacement ==
    \A p \in DOMAIN procs :
        LET q == procs[p] IN
        CleanResync(q) =>
            /\ {<<r.seven_tv_id, r.file_name>> : r \in RowsOf(ledger, db_folder(q))}
                  = ProducedKeys(q)
            /\ sync_key(q) \in DOMAIN cache
            /\ emotes_from_slice(cache[sync_key(q)].bytes) = Some(q.processed)
            /\ BlobsUnder(archive, q.folder \o <<"/">>) \ {ManifestBlob(q)} = AssetBlobs(q)

\* C4 -- Cleanup failure aborts the resync: if deleting the archive blobs under
\* {folder}/ fails in step 1 of a trending or user resync, the resync returns a failed
\* result at once and performs no catalog fetch, no ingestion (no download, no
\* upload), no cache write, no manifest write and no ledger write.
C4_CleanupFailureAborts ==
    \A p \in DOMAIN procs :
        LET q == procs[p] IN
        (IsResync(q) /\ "cleanup" \in q.errs) =>
            /\ q.pc = "done"
            /\ q.resp # None
            /\ ~q.resp[1].success
            /\ q.resp[1].emotes = << >>
            /\ q.resp[1].message # None
            /\ q.phases = <<"cleanup">>
            /\ q.calls.fetch = 0
            /\ q.calls.download = 0
            /\ q.calls.head = 0
            /\ q.calls.put = 0
            /\ q.calls.cache_set = 0
            /\ q.calls.db_write = 0
            /\ cache = q.pre[1].cache
            /\ ledger = q.pre[1].ledger
            /\ users = q.pre[1].users
            /\ DOMAIN archive \subseteq DOMAIN q.pre[1].archive
            /\ \A n \in DOMAIN archive : archive[n] = q.pre[1].archive[n]

\* a resync was aborted by a failed delete while blobs of the folder were in the archive
C4_Witness ==
    \E p \in DOMAIN procs :
        LET q == procs[p] IN
        /\ IsResync(q)
        /\ q.pc = "done"
        /\ "cleanup" \in q.errs
        /\ q.calls.delete >= 1
        /\ BlobsUnder(archive, q.folder \o <<"/">>) # {}

IsRead(q) == q.kind \in {"synced_read", "saved_read"}
\* the ledger folder of a read, from its request parameters
C5_Folder(q) ==
    IF q.kind = "synced_read"
    THEN <<"trending_sync", ":">> \o q.period_str \o <<":">>
            \o (IF q.animated_only THEN <<"true">> ELSE <<"false">>)
    ELSE q.folder
C5_Rows(q) == {r \in q.pre[1].ledger : r.folder_name = C5_Folder(q)}
\* the asset a ledger row maps to
C5_Asset(r) ==
    [file_name |-> r.file_name, url |-> r.url, emote_id |-> r.seven_tv_id,
     emote_name |-> r.emote_name, owner |-> r.owner_name,
     animated |-> Some(r.animated), scale |-> None, mime |-> None]

\* C5 -- Ledger is authoritative on synced reads: whenever the ledger holds at least
\* one row for the folder, a read of the folder (synced-trending or saved-user)
\* returns assets mapped from those ledger rows, min(limit, rows) of them, each row at
\* most once, and nothing taken from the cache or the archive manifest, whatever those
\* two hold: for limit >= 1 the response is successful, marked cached = false, and the
\* cache was not consulted. (Stated for reads whose ledger query does not fail and
\* whose limit is not negative.)
C5_LedgerAuthoritative ==
    \A p \in DOMAIN procs :
        LET q == procs[p] IN
        (/\ IsRead(q)
         /\ q.pc = "done"
         /\ C5_Rows(q) # {}
         /\ "db" \notin q.errs
         /\ q.limit >= 0)
        => LET emotes == q.resp[1].emotes
           IN  /\ \A k \in 1..Len(emotes) : \E r \in C5_Rows(q) : emotes[k] = C5_Asset(r)
               /\ \A k, l \in 1..Len(emotes) : emotes[k] = emotes[l] => k = l
               /\ Len(emotes) = Min(q.limit, Cardinality(C5_Rows(q)))
               /\ q.limit >= 1 =>
                     /\ q.resp[1].success
                     /\ q.resp[1].cached = Some(FALSE)
                     /\ q.calls.cache_get = 0
                     /\ archive = q.pre[1].archive
                     /\ cache = q.pre[1].cache

\* a synced read answered from the ledger while the sync key held a different list
C5_Witness ==
    \E p \in DOMAIN procs :
        LET q == procs[p] IN
        /\ q.kind = "synced_read"
        /\ q.pc = "done"
        /\ q.limit >= 1
        /\ "db" \notin q.errs
        /\ C5_Rows(q) # {}
        /\ q.resp[1].success
        /\ sync_key(q) \in DOMAIN cache
        /\ emotes_from_slice(cache[sync_key(q)].bytes) \notin {None, Some(<< >>)}
        /\ LET stored == emotes_from_slice(cache[sync_key(q)].bytes)[1]
           IN  \A k \in 1..Len(q.resp[1].emotes), c \in 1..Len(stored) :
                  stored[c].emote_id # q.resp[1].emotes[k].emote_id

\* the ledger query of the read yielded no rows: none in the folder, a limit of 0, or
\* an error
C6_NoRows(q) ==
    \/ {r \in q.pre[1].ledger : r.folder_name = C5_Folder(q)} = {}
    \/ q.limit = 0
    \/ "db" \in q.errs

\* C6 -- Cache tier and fixed-window pagination: when the ledger yields no rows for
\* the folder and the sync key holds a deserializable list of n assets, a synced read
\* with limit L returns exactly the first min(L, n) assets in stored order, marked
\* cached = true, with hasNextPage = false however many assets remain. (Stated for
\* L >= 0 and a cache lookup that does not fail.)
C6_CacheTierWindow ==
    \A p \in DOMAIN procs :
        LET q == procs[p] IN
        (/\ q.kind = "synced_read"
         /\ q.pc = "done"
         /\ C6_NoRows(q)
         /\ q.limit >= 0
         /\ "cache" \notin q.errs
         /\ sync_key(q) \in DOMAIN q.pre[1].cache
         /\ emotes_from_slice(q.pre[1].cache[sync_key(q)].bytes) # None)
        => LET stored == emotes_from_slice(q.pre[1].cache[sync_key(q)].bytes)[1]
               n == Len(stored)
               L == q.limit
           IN  /\ q.resp[1].success
               /\ q.resp[1].emotes = [k \in 1..(IF L < n THEN L ELSE n) |-> stored[k]]
               /\ q.resp[1].total_found = (IF L < n THEN L ELSE n)
               /\ q.resp[1].cached = Some(TRUE)
               /\ q.resp[1].has_next_page = Some(FALSE)

\* a list of two assets under the sync key, read with limit 1
C6_Witness ==
    \E p \in DOMAIN procs :
        LET q == procs[p] IN
        /\ q.kind = "synced_read"
        /\ q.pc = "done"
        /\ q.limit = 1
        /\ C6_NoRows(q)
        /\ sync_key(q) \in DOMAIN q.pre[1].cache
        /\ emotes_from_slice(q.pre[1].cache[sync_key(q)].bytes) # None
        /\ Len(emotes_from_slice(q.pre[1].cache[sync_key(q)].bytes)[1]) = 2
        /\ Len(q.resp[1].emotes) = 1
        /\ q.resp[1].cached = Some(TRUE)

-----------------------------------------------------------------------------
(* Properties of image selection (checked under SpecSelect) *)

\* the order the selector is specified by: animated before still, then the MIME rank
\* webp > gif > avif > png > any other, then the scale
C11_Animated(x) == IF x.frame_count > 1 THEN 1 ELSE 0
C11_MimeRank(x) ==
    CASE x.mime = <<"image/", "webp">> -> 4
      [] x.mime = <<"image/", "gif">> -> 3
      [] x.mime = <<"image/", "avif">> -> 2
      [] x.mime = <<"image/", "png">> -> 1
      [] OTHER -> 0
C11_Below(x, y) ==
    \/ C11_Animated(x) < C11_Animated(y)
    \/ C11_Animated(x) = C11_Animated(y) /\ C11_MimeRank(x) < C11_MimeRank(y)
    \/ /\ C11_Animated(x) = C11_Animated(y)
       /\ C11_MimeRank(x) = C11_MimeRank(y)
       /\ x.scale < y.scale
C11_Example ==
    <<Variant(MimeWebp, 1, 1), Variant(MimePng, 1, 1), Variant(MimeWebp, 2, 1)>>

\* C11 -- Canonical image selection: for a non-empty variant list the selector returns
\* one element of the list that no element of the list exceeds in the order (animated,
\* MIME rank webp > gif > avif > png > other, scale), and that element is the one the
\* record's asset is made from; [{webp,1},{png,1},{webp,2}] yields {webp,2}; for an
\* empty list the selector returns nothing and the record is dropped with no download.
C11_CanonicalSelection ==
    \A p \in DOMAIN procs :
        LET q == procs[p] IN
        \A i \in 1..Len(q.batch) :
            LET list == q.batch[i].images[1]
                sel == select_best_image(list)
            IN  /\ q.batch[i].images # None
                /\ list = << >> =>
                      /\ sel = None
                      /\ q.calls.download = 0
                      /\ q.st[i] \in {"new", "none"}
                      /\ q.dl[i] = "none"
                /\ list # << >> =>
                      /\ sel # None
                      /\ \E k \in 1..Len(list) : list[k] = sel[1]
                      /\ \A k \in 1..Len(list) : ~C11_Below(sel[1], list[k])
                      /\ q.st[i] = "some" =>
                            /\ q.out[1].mime = Some(sel[1].mime)
                            /\ q.out[1].scale = Some(sel[1].scale)
                            /\ q.out[1].animated = Some(sel[1].frame_count > 1)
                      /\ q.up[i] = "stored" =>
                            archive[emote_blob_name(q.folder, q.batch[i])].data
                               = image_bytes(sel[1].url)
                /\ list = C11_Example => sel = Some(Variant(MimeWebp, 2, 1))

\* the list of the example was ingested and the blob stored is the webp of scale 2
C11_Witness ==
    \E p \in DOMAIN procs :
        LET q == procs[p] IN
        /\ q.pc = "returned"
        /\ q.batch[1].images = Some(C11_Example)
        /\ q.up[1] = "stored"
        /\ q.processed[1].scale = Some(2)
        /\ q.processed[1].mime = Some(MimeWebp)

\* a record with an empty variant list was dropped
C11_WitnessEmpty ==
    \E p \in DOMAIN procs :
        /\ procs[p].pc = "returned"
        /\ procs[p].batch[1].images = Some(<< >>)
        /\ procs[p].processed = << >>

-----------------------------------------------------------------------------
(* Properties of name sanitizing (checked under SpecIngest) *)

\* the characters of [A-Za-z0-9._- ]
C12_Allowed ==
    {"a", "b", "k", "Z"} \cup {"0", "1", "2", "3", "4", "5", "6", "7", "8", "9"}
        \cup {".", "_", "-", " "}
C12_Sanitized(name) ==
    [i \in 1..Len(name) |-> IF name[i] \in C12_Allowed THEN name[i] ELSE "_"]
\* the sanitized name an asset's file name starts with
C12_SafePart(a) == SubSeq(a.file_name, 1, Len(a.file_name) - Len(a.emote_id) - 2)

\* C12 -- Sanitized display name: in the file name of every asset produced, the
\* sanitized name has the length of the display name, every character of the display
\* name that is in [A-Za-z0-9._- ] is kept and every other character is replaced by
\* "_", so the sanitized name contains only characters of that set.
C12_SanitizedName ==
    \A p \in DOMAIN procs :
        \A k \in 1..Len(procs[p].out) :
            LET a == procs[p].out[k] IN
            /\ Len(C12_SafePart(a)) = Len(a.emote_name)
            /\ C12_SafePart(a) = C12_Sanitized(a.emote_name)
            /\ \A i \in 1..Len(C12_SafePart(a)) : C12_SafePart(a)[i] \in C12_Allowed

\* the same, for display names made of ASCII characters only
C12_SanitizedAsciiName ==
    \A p \in DOMAIN procs :
        \A k \in 1..Len(procs[p].out) :
            LET a == procs[p].out[k] IN
            (\A i \in 1..Len(a.emote_name) : a.emote_name[i] \notin OtherLetters) =>
                /\ C12_SafePart(a) = C12_Sanitized(a.emote_name)
                /\ \A i \in 1..Len(C12_SafePart(a)) : C12_SafePart(a)[i] \in C12_Allowed

-----------------------------------------------------------------------------
(* Properties of the whole router (checked under SpecService) *)

\* the key of an ad-hoc request held a payload of the response type when it started
C13_Held(q) ==
    /\ cache_key(q) \in DOMAIN q.pre[1].cache
    /\ q.pre[1].cache[cache_key(q)].bytes.kind = "object"
C13_Payload(q) == response_from_slice(q.pre[1].cache[cache_key(q)].bytes)[1]
C13_ModeTtl(q) == IF q.kind = "adhoc_search" THEN 3600 ELSE 900

\* C13 -- Ad-hoc cache-aside: when an ad-hoc search or trending request finds a
\* deserializable payload under its key, it returns that payload marked cached = true
\* and performs no catalog fetch and no ingestion; otherwise it performs one catalog
\* fetch, ingests the batch, stores the response under the key with the TTL of its
\* mode and returns it marked cached = false. (Stated for requests whose cache calls
\* do not fail and, on a miss, whose catalog fetch succeeds.)
C13_CacheAside ==
    \A p \in DOMAIN procs :
        LET q == procs[p] IN
        (IsAdhoc(q) /\ q.pc = "done" /\ q.errs = {}) =>
            IF C13_Held(q)
            THEN /\ q.resp[1] = [C13_Payload(q) EXCEPT !.cached = Some(TRUE)]
                 /\ q.calls.fetch = 0
                 /\ q.calls.download = 0
                 /\ "ingest" \notin {q.phases[i] : i \in 1..Len(q.phases)}
                 /\ cache = q.pre[1].cache
            ELSE /\ q.calls.fetch = 1
                 /\ q.resp[1].success =>
                       /\ q.phases = <<"fetch", "ingest", "cache_write">>
                       /\ q.resp[1].emotes = q.processed
                       /\ q.resp[1].cached = Some(FALSE)
                       /\ cache_key(q) \in DOMAIN cache
                       /\ response_from_slice(cache[cache_key(q)].bytes) = Some(q.resp[1])
                       /\ cache[cache_key(q)].ttl = C13_ModeTtl(q)
                       /\ q.calls.cache_set = 1

\* a request answered from the entry an earlier request of the same key had stored
C13_Witness ==
    \E p \in DOMAIN procs :
        LET q == procs[p] IN
        /\ IsAdhoc(q)
        /\ q.pc = "done"
        /\ C13_Held(q)
        /\ q.resp[1].cached = Some(TRUE)
        /\ q.resp[1].emotes # << >>
        /\ q.calls.fetch = 0

\* C14 -- Ad-hoc requests are cache-only: while an ad-hoc search or ad-hoc trending
\* request is handled, hit or miss, and when it has returned, the ledger and the blob
\* archive are as they were when it started; it issues no blob write and no ledger
\* write.
C14_AdhocCacheOnly ==
    \A p \in DOMAIN procs :
        LET q == procs[p] IN
        IsAdhoc(q) =>
            /\ ledger = q.pre[1].ledger
            /\ users = q.pre[1].users
            /\ archive = q.pre[1].archive
            /\ q.calls.put = 0
            /\ q.calls.db_write = 0

\* the part of it that concerns the ledger
C14_AdhocLeavesLedger ==
    \A p \in DOMAIN procs :
        LET q == procs[p] IN
        IsAdhoc(q) =>
            /\ ledger = q.pre[1].ledger
            /\ users = q.pre[1].users
            /\ q.calls.db_write = 0
            /\ q.phases = <<"cache">> => archive = q.pre[1].archive

-----------------------------------------------------------------------------
(* Properties of the resync handlers, continued (checked under Spec) *)

\* a resync whose cleanup, fetch and ingestion succeeded and that has returned
C15_Persisting(q) ==
    /\ IsResync(q)
    /\ q.pc = "done"
    /\ "cleanup" \notin q.errs
    /\ "ingest" \in {q.phases[i] : i \in 1..Len(q.phases)}
\* one of its three persistence steps failed
C15_StepFailed(q) == q.errs \cap {"cache", "manifest", "db"} # {}
C15_Attempted(q, step) == step \in {q.phases[i] : i \in 1..Len(q.phases)}
\* the writes that succeeded are in place when the resync returns
C15_CacheKept(q) ==
    "cache" \notin q.errs =>
        /\ sync_key(q) \in DOMAIN cache
        /\ emotes_from_slice(cache[sync_key(q)].bytes) = Some(q.processed)
C15_LedgerKept(q) ==
    "db" \notin q.errs =>
        \A k \in 1..Len(q.processed) :
            \E r \in RowsOf(ledger, db_folder(q)) :
                r.seven_tv_id = q.processed[k].emote_id
C15_ManifestKept(q) ==
    (C15_Attempted(q, "manifest_write") /\ "manifest" \notin q.errs) =>
        /\ ManifestBlob(q) \in DOMAIN archive
        /\ emotes_from_slice(archive[ManifestBlob(q)].data) = Some(q.processed)
C15_Success(q) ==
    /\ q.resp[1].success
    /\ q.resp[1].emotes = q.processed
    /\ q.resp[1].total_found = Len(q.processed)

\* C15 -- Best-effort persistence steps: in a resync (trending or user) whose cleanup,
\* fetch and ingestion succeeded, when the cache write, the manifest write or the
\* ledger replace fails, all three steps are still attempted, the writes that
\* succeeded are in place afterwards, and the resync returns a successful result
\* carrying the ingested assets.
C15_BestEffortPersistence ==
    \A p \in DOMAIN procs :
        LET q == procs[p] IN
        (C15_Persisting(q) /\ C15_StepFailed(q)) =>
            /\ C15_Attempted(q, "cache_write")
            /\ C15_Attempted(q, "manifest_write")
            /\ C15_Attempted(q, "ledger_write")
            /\ C15_CacheKept(q)
            /\ C15_ManifestKept(q)
            /\ C15_LedgerKept(q)
            /\ C15_Success(q)

\* the same without the manifest step of a user resync, which that handler does not have
C15_BestEffortOfExistingSteps ==
    \A p \in DOMAIN procs :
        LET q == procs[p] IN
        (C15_Persisting(q) /\ C15_StepFailed(q)) =>
            /\ C15_Attempted(q, "cache_write")
            /\ q.kind = "sync_trending" => C15_Attempted(q, "manifest_write")
            /\ C15_Attempted(q, "ledger_write")
            /\ C15_CacheKept(q)
            /\ C15_ManifestKept(q)
            /\ C15_LedgerKept(q)
            /\ C15_Success(q)

-----------------------------------------------------------------------------
(* Properties of error handling (checked under SpecService) *)

C16_Phases(q) == {q.phases[i] : i \in 1..Len(q.phases)}
\* the catalog request of the operation ended in an error
C16_FetchFailed(q) ==
    /\ IsAdhoc(q) \/ IsResync(q)
    /\ q.pc = "done"
    /\ "fetch" \in C16_Phases(q)
    /\ "ingest" \notin C16_Phases(q)
\* the records whose image download, resp. upload, has been started
C16_Downloads(q) == {i \in 1..Len(q.st) : q.st[i] = "download" \/ q.dl[i] # "none"}
C16_Uploads(q) ==
    {i \in 1..Len(q.st) : q.st[i] \in {"check", "put"} \/ q.up[i] # "none"}

\* C16 -- Upstream errors are surfaced and never retried: when the catalog request of
\* an ad-hoc or resync operation fails, the operation returns success = false with an
\* empty emote list and a message, has written nothing to the cache, the ledger or
\* the users table, and has issued exactly one catalog request; no operation issues
\* more than one catalog request, and each record's image download and upload is
\* attempted at most once.
C16_UpstreamErrorSurfaced ==
    \A p \in DOMAIN procs :
        LET q == procs[p] IN
        /\ C16_FetchFailed(q) =>
              /\ ~q.resp[1].success
              /\ q.resp[1].emotes = << >>
              /\ q.resp[1].total_found = 0
              /\ q.resp[1].message # None
              /\ q.calls.fetch = 1
              /\ q.calls.cache_set = 0
              /\ q.calls.db_write = 0
              /\ cache = q.pre[1].cache
              /\ ledger = q.pre[1].ledger
              /\ users = q.pre[1].users
        /\ q.calls.fetch <= 1
        /\ q.calls.download = Cardinality(C16_Downloads(q))
        /\ q.calls.download <= Len(q.batch)
        /\ q.pc = "ingest" =>
              /\ q.calls.head <= Cardinality(C16_Uploads(q))
              /\ q.calls.put <= q.calls.head

\* a resync whose catalog request failed while the folder's sync key held an entry
C16_Witness ==
    \E p \in DOMAIN procs :
        LET q == procs[p] IN
        /\ IsResync(q)
        /\ C16_FetchFailed(q)
        /\ sync_key(q) \in DOMAIN cache

\* an ad-hoc request whose catalog request failed
C16_WitnessAdhoc ==
    \E p \in DOMAIN procs : IsAdhoc(procs[p]) /\ C16_FetchFailed(procs[p])

\* the answer of a synced read whose sync key is absent and whose ledger is empty
C17_NoData(q) ==
    [success |-> FALSE, total_found |-> 0, emotes |-> << >>,
     message |-> Some(<<"No synced data found in DB or Cache. Please run admin sync.">>),
     cached |-> Some(FALSE), processing_time |-> None, page |-> None,
     total_pages |-> None, results_per_page |-> None, has_next_page |-> None]
\* the list the sync key held when the read started, if it held one
C17_Stored(q) ==
    IF sync_key(q) \in DOMAIN q.pre[1].cache
    THEN emotes_from_slice(q.pre[1].cache[sync_key(q)].bytes)
    ELSE None
\* the answer of a synced read over an empty ledger: the window of the stored list,
\* or "no data" when the key is absent or its lookup fails
C17_EmptyLedgerAnswer(q) ==
    IF C17_Stored(q) # None /\ "cache" \notin q.errs
    THEN return_paginated_response(C17_Stored(q)[1], as_usize(q.limit))
    ELSE C17_NoData(q)

\* C17 -- Graceful degradation on reads: a failing store is taken as a miss. A synced
\* read whose ledger query fails answers exactly as over an empty ledger (it goes on
\* to the sync key); a synced read whose cache lookup fails answers exactly as with
\* the key absent ("no data"); an ad-hoc search or trending request whose cache lookup
\* fails goes on to the catalog fetch as with the key absent; a saved-user read whose
\* ledger query fails returns a failed result without data. None of these reads
\* writes to the ledger, and the synced and saved reads write to no tier.
C17_GracefulReads ==
    \A p \in DOMAIN procs :
        LET q == procs[p] IN
        /\ (q.kind = "synced_read" /\ q.pc = "done" /\ "db" \in q.errs) =>
              /\ q.calls.cache_get = 1
              /\ q.resp[1] = C17_EmptyLedgerAnswer(q)
        /\ (q.kind = "synced_read" /\ q.pc = "done" /\ "cache" \in q.errs) =>
              q.resp[1] = C17_NoData(q)
        /\ (IsAdhoc(q) /\ "cache" \in q.errs) =>
              /\ q.calls.fetch = 1 \/ q.pc = "fetch"
              /\ q.pc = "done" => q.resp[1].cached = Some(FALSE)
        /\ (q.kind = "saved_read" /\ q.pc = "done" /\ "db" \in q.errs) =>
              /\ ~q.resp[1].success
              /\ q.resp[1].emotes = << >>
              /\ q.resp[1].total_found = 0
              /\ q.resp[1].message # None
        /\ IsRead(q) =>
              /\ cache = q.pre[1].cache
              /\ ledger = q.pre[1].ledger
              /\ archive = q.pre[1].archive
        /\ IsAdhoc(q) => ledger = q.pre[1].ledger

\* a synced read whose ledger query failed, although the ledger held rows of the
\* folder, was answered from the sync key
C17_Witness ==
    \E p \in DOMAIN procs :
        LET q == procs[p] IN
        /\ q.kind = "synced_read"
        /\ q.pc = "done"
        /\ "db" \in q.errs
        /\ q.limit >= 1
        /\ RowsOf(ledger, db_folder(q)) # {}
        /\ q.resp[1].success
        /\ q.resp[1].cached = Some(TRUE)

\* a synced read whose cache lookup failed while the key held a list
C17_WitnessCache ==
    \E p \in DOMAIN procs :
        LET q == procs[p] IN
        /\ q.kind = "synced_read"
        /\ q.pc = "done"
        /\ "cache" \in q.errs
        /\ C17_Stored(q) \notin {None, Some(<< >>)}

\* an ad-hoc request whose cache lookup failed while the key held a response
C17_WitnessAdhoc ==
    \E p \in DOMAIN procs :
        LET q == procs[p] IN
        /\ IsAdhoc(q)
        /\ q.pc = "done"
        /\ "cache" \in q.errs
        /\ C13_Held(q)
        /\ q.resp[1].success

\* a saved-user read whose ledger query failed while the folder had rows
C17_WitnessSaved ==
    \E p \in DOMAIN procs :
        LET q == procs[p] IN
        /\ q.kind = "saved_read"
        /\ q.pc = "done"
        /\ "db" \in q.errs
        /\ q.limit >= 0
        /\ RowsOf(ledger, q.folder) # {}

\* the catalog fetch of the operation succeeded and the operation has returned
C18_Fetched(q) ==
    /\ IsAdhoc(q) \/ IsResync(q)
    /\ q.pc = "done"
    /\ "ingest" \in C16_Phases(q)

\* C18 -- Batch-level success despite dropped items: whenever the catalog fetch of an
\* ad-hoc or resync operation succeeds, the operation reports success = true with
\* totalFound equal to the number of assets returned, which are the assets of the
\* records that were not dropped, however many were dropped (all of them included);
\* the message is absent or the fixed success text, so no per-record error shows.
C18_BatchLevelSuccess ==
    \A p \in DOMAIN procs :
        LET q == procs[p] IN
        C18_Fetched(q) =>
            /\ q.resp[1].success
            /\ q.resp[1].total_found = Len(q.resp[1].emotes)
            /\ Len(q.resp[1].emotes) = Len(q.batch) - Cardinality(C8_Dropped(q))
            /\ \A k \in 1..Len(q.resp[1].emotes) :
                 \E i \in C8_Kept(q) : q.resp[1].emotes[k].emote_id = q.batch[i].id
            /\ q.resp[1].message \in
                 {None, Some(<<"Synced successfully">>),
                  Some(<<"User emotes synced successfully">>)}

\* an ad-hoc request whose batch lost every record and that reports success
C18_Witness ==
    \E p \in DOMAIN procs :
        LET q == procs[p] IN
        /\ IsAdhoc(q)
        /\ C18_Fetched(q)
        /\ q.batch # << >>
        /\ q.resp[1].emotes = << >>
        /\ q.resp[1].success

\* a resync whose batch lost every record and that reports success
C18_WitnessResync ==
    \E p \in DOMAIN procs :
        LET q == procs[p] IN
        /\ IsResync(q)
        /\ C18_Fetched(q)
        /\ q.batch # << >>
        /\ q.resp[1].emotes = << >>
        /\ q.resp[1].success

-----------------------------------------------------------------------------
(* Properties of the read handlers, continued (checked under Spec) *)

\* no tier held data of the folder when the read started: no ledger row, no list
\* under the sync key, no manifest that deserializes
C19_NoLedgerRows(q) == {r \in q.pre[1].ledger : r.folder_name = C5_Folder(q)} = {}
C19_NoCacheEntry(q) ==
    \/ sync_key(q) \notin DOMAIN q.pre[1].cache
    \/ q.pre[1].cache[sync_key(q)].bytes.kind # "array"
C19_NoManifest(q) ==
    \/ ReadManifest(q) \notin DOMAIN q.pre[1].archive
    \/ q.pre[1].archive[ReadManifest(q)].data.kind # "array"

\* C19 -- No synced data: when the ledger has no rows for the folder, the cache has
\* no deserializable entry under the sync key and the archive has no deserializable
\* manifest, a synced read returns a failed result (success = false, empty emote
\* list, a message) and writes nothing to any tier; a saved-user read of a folder
\* without ledger rows does the same.
C19_NoSyncedData ==
    \A p \in DOMAIN procs :
        LET q == procs[p] IN
        /\ (/\ q.kind = "synced_read"
            /\ q.pc = "done"
            /\ C19_NoLedgerRows(q)
            /\ C19_NoCacheEntry(q)
            /\ C19_NoManifest(q)) =>
              /\ ~q.resp[1].success
              /\ q.resp[1].emotes = << >>
              /\ q.resp[1].total_found = 0
              /\ q.resp[1].message # None
              /\ q.calls.cache_set = 0 /\ q.calls.put = 0 /\ q.calls.db_write = 0
              /\ cache = q.pre[1].cache
              /\ ledger = q.pre[1].ledger
              /\ archive = q.pre[1].archive
        /\ (q.kind = "saved_read" /\ q.pc = "done" /\ C19_NoLedgerRows(q)) =>
              /\ ~q.resp[1].success
              /\ q.resp[1].emotes = << >>
              /\ q.resp[1].message # None
              /\ cache = q.pre[1].cache
              /\ ledger = q.pre[1].ledger
              /\ archive = q.pre[1].archive

\* a synced read found nothing for its folder while the stores held the rows, the
\* cache entry and the blobs of another folder
C19_Witness ==
    \E p \in DOMAIN procs :
        LET q == procs[p] IN
        /\ q.kind = "synced_read"
        /\ q.pc = "done"
        /\ C19_NoLedgerRows(q)
        /\ C19_NoCacheEntry(q)
        /\ C19_NoManifest(q)
        /\ q.calls.cache_get = 1
        /\ ~q.resp[1].success
        /\ ledger # {}
        /\ DOMAIN cache # {}
        /\ DOMAIN archive # {}

-----------------------------------------------------------------------------
(* Properties of the ledger (checked under SpecLedger) *)

C20_SamePair(r1, r2) ==
    r1.seven_tv_id = r2.seven_tv_id /\ r1.folder_name = r2.folder_name

-----------------------------------------------------------------------------
(* Properties of overlapping resyncs (checked under SpecConcurrent) *)

\* the assets the three tiers list for the folder of resync q
C21_Listed(q) ==
    LET entry == IF sync_key(q) \in DOMAIN cache
                 THEN emotes_from_slice(cache[sync_key(q)].bytes) ELSE None
        manifest == IF metadata_blob_name(q.folder) \in DOMAIN archive
                    THEN emotes_from_slice(archive[metadata_blob_name(q.folder)].data)
                    ELSE None
    IN  {row_to_emote(r).file_name : r \in RowsOf(ledger, db_folder(q))}
          \cup (IF entry = None THEN {} ELSE {entry[1][k].file_name : k \in 1..Len(entry[1])})
          \cup (IF manifest = None THEN {}
                ELSE {manifest[1][k].file_name : k \in 1..Len(manifest[1])})
C21_Dangling(q) ==
    {f \in C21_Listed(q) : blob_name(q.folder, f) \notin DOMAIN archive}

\* C21 -- Unguarded concurrent resyncs: two resyncs of the same folder are not mutually
\* excluded: while a resync of a folder is anywhere between its first and its last
\* step, a second resync of the same folder can start, and each of its steps can be
\* taken next (with the other one standing still).  (The interleaving that leaves an
\* asset listed in the cache entry, the manifest or the ledger rows without a blob,
\* both resyncs having returned success, is C21_Witness.)
C21_UnguardedResyncs ==
    \A p, o \in DOMAIN procs :
        (p # o /\ IsResync(procs[o]) /\ procs[o].pc # "done") =>
            /\ (procs[p].pc = "idle" /\ nreq < MaxRequests) =>
                  /\ procs[o].kind = "sync_trending" =>
                        ENABLED SyncTrendingStart(p, Some(procs[o].period_str),
                                                  Some(procs[o].animated_only))
                  /\ procs[o].kind = "sync_user" =>
                        ENABLED SyncUserStart(p, procs[o].user_id, procs[o].folder)
            /\ (IsResync(procs[p]) /\ procs[p].folder = procs[o].folder) =>
                  /\ procs[p].pc = "cleanup" => ENABLED CleanupList(p)
                  /\ procs[p].pc = "cleanup_delete" =>
                        \A name \in procs[p].todel : ENABLED CleanupDelete(p, name)
                  /\ procs[p].pc = "cache_save" => ENABLED CacheSave(p)
                  /\ procs[p].pc = "manifest_check" => ENABLED ManifestCheck(p)
                  /\ procs[p].pc = "manifest_put" => ENABLED ManifestPut(p)
                  /\ procs[p].pc = "db_delete" => ENABLED DbDelete(p)
                  /\ procs[p].pc = "db_insert" => ENABLED DbInsert(p)

\* two resyncs of one folder overlapped, both have returned success with no store
\* failure, and a tier lists an asset that has no blob
C21_Witness ==
    \E p, o \in DOMAIN procs :
        /\ p # o
        /\ CleanResync(procs[p])
        /\ CleanResync(procs[o])
        /\ procs[p].folder = procs[o].folder
        /\ C21_Dangling(procs[p]) # {}

-----------------------------------------------------------------------------
(* Properties of a single resync (checked under Spec) *)

C22_Steps ==
    <<"cleanup", "fetch", "ingest", "cache_write", "manifest_write", "ledger_write">>
\* no record pipeline of the batch is still running
C22_IngestOver(q) == \A i \in 1..Len(q.st) : q.st[i] \in {"some", "none"}
\* steps 1 and 2 succeeded and the resync has returned
C22_Ran(q) ==
    /\ IsResync(q)
    /\ q.pc = "done"
    /\ "cleanup" \notin q.errs
    /\ "ingest" \in {q.phases[k] : k \in 1..Len(q.phases)}

\* C22 -- Strict step order of a resync: in every execution of a single trending or
\* user resync the steps started so far are an initial part of (1) delete the archive
\* blobs of the folder, (2) catalog fetch, (3) ingestion of the whole batch, (4) cache
\* write under the sync key, (5) manifest write, (6) ledger replace, in this order;
\* a step after the ingestion starts only when no record pipeline is running; and a
\* resync whose steps 1 and 2 succeeded has performed all six when it returns.
C22_StrictStepOrder ==
    \A p \in DOMAIN procs :
        LET q == procs[p] IN
        IsResync(q) =>
            /\ Len(q.phases) <= Len(C22_Steps)
            /\ q.phases = SubSeq(C22_Steps, 1, Len(q.phases))
            /\ Len(q.phases) > 3 => C22_IngestOver(q)
            /\ C22_Ran(q) => q.phases = C22_Steps

\* the steps the user resync has: the same without the manifest write
C22_UserSteps == <<"cleanup", "fetch", "ingest", "cache_write", "ledger_write">>
C22_StepsOf(q) == IF q.kind = "sync_trending" THEN C22_Steps ELSE C22_UserSteps

\* the same statement over the steps each handler has
C22_OrderOfExistingSteps ==
    \A p \in DOMAIN procs :
        LET q == procs[p] IN
        IsResync(q) =>
            /\ Len(q.phases) <= Len(C22_StepsOf(q))
            /\ q.phases = SubSeq(C22_StepsOf(q), 1, Len(q.phases))
            /\ Len(q.phases) > 3 => C22_IngestOver(q)
            /\ C22_Ran(q) => q.phases = C22_StepsOf(q)

C23_BatchIds(q) == {q.batch[i].id : i \in 1..Len(q.batch)}
\* the rows of the resync's folder, before it started, whose id the new batch lacks
C23_Stale(q) ==
    {r \in RowsOf(q.pre[1].ledger, db_folder(q)) : r.seven_tv_id \notin C23_BatchIds(q)}
C23_Keys(rows) == {stickers_unique_key(r) : r \in rows}

\* C23 -- User-sync keeps stale ledger rows: a user resync deletes no ledger row (every
\* (external id, folder) pair that had a row keeps one, and the rows of other folders
\* are untouched); a row of its folder whose external id is absent from the new batch
\* is still present, unchanged, at every step of the resync and after it; and after a
\* resync whose ledger calls all succeeded each produced asset has the row made from
\* the last produced asset of its id.
C23_UserSyncKeepsStaleRows ==
    \A p \in DOMAIN procs :
        LET q == procs[p] IN
        q.kind = "sync_user" =>
            /\ C23_Stale(q) \subseteq ledger
            /\ C23_Keys(q.pre[1].ledger) \subseteq C23_Keys(ledger)
            /\ q.pre[1].ledger \ RowsOf(q.pre[1].ledger, db_folder(q)) \subseteq ledger
            /\ (CompletedResync(q) /\ "db" \notin q.errs) =>
                  \A k \in 1..Len(q.processed) :
                      (\A j \in (k + 1)..Len(q.processed) :
                           q.processed[j].emote_id # q.processed[k].emote_id)
                        => StickerRow(q.processed[k], db_folder(q)) \in ledger

\* a user resync has returned success and written the row of a new asset, and a row
\* of the folder from an earlier resync, its id absent from the batch, is still there
C23_Witness ==
    \E p \in DOMAIN procs :
        LET q == procs[p] IN
        /\ q.kind = "sync_user"
        /\ CleanResync(q)
        /\ q.processed # << >>
        /\ C23_Stale(q) # {}
        /\ C23_Stale(q) \subseteq ledger
        /\ StickerRow(q.processed[1], db_folder(q)) \in ledger \ q.pre[1].ledger

-----------------------------------------------------------------------------
(* Properties of the ledger step of a trending resync (checked under SpecLedger) *)

\* the first produced asset of each external id
C24_First(processed) ==
    {processed[k] : k \in {i \in 1..Len(processed) :
                             \A j \in 1..(i - 1) : processed[j].emote_id # processed[i].emote_id}}

\* C24 -- Trending-sync replaces ledger rows by delete-then-insert: after a trending
\* resync in which no ledger call failed, the ledger rows of its folder are exactly
\* one row per distinct external id among the assets produced by this resync (the
\* row of the first asset of that id), no row from an earlier resync of the folder
\* remains, and the rows of other folders are as they were.
C24_DeleteThenInsert ==
    \A p \in DOMAIN procs :
        LET q == procs[p] IN
        (q.kind = "sync_trending" /\ CompletedResync(q) /\ "db" \notin q.errs) =>
            /\ RowsOf(ledger, db_folder(q))
                 = {StickerRow(a, db_folder(q)) : a \in C24_First(q.processed)}
            /\ Cardinality(RowsOf(ledger, db_folder(q)))
                 = Cardinality({q.processed[k].emote_id : k \in 1..Len(q.processed)})
            /\ ledger \ RowsOf(ledger, db_folder(q))
                 = q.pre[1].ledger \ RowsOf(q.pre[1].ledger, db_folder(q))

\* a trending resync found a row of its folder left by an earlier resync and replaced
\* it by a different row for the same external id
C24_Witness ==
    \E p \in DOMAIN procs :
        LET q == procs[p] IN
        /\ q.kind = "sync_trending"
        /\ CleanResync(q)
        /\ q.processed # << >>
        /\ \E r \in RowsOf(q.pre[1].ledger, db_folder(q)) :
              /\ r \notin ledger
              /\ r.seven_tv_id = q.processed[1].emote_id
        /\ RowsOf(ledger, db_folder(q)) = {StickerRow(q.processed[1], db_folder(q))}

-----------------------------------------------------------------------------
(* Properties of the derived image list (checked under SpecDerive) *)

RECURSIVE C25_Decimal(_)
C25_Decimal(s) ==
    IF s = << >> THEN 0
    ELSE 10 * C25_Decimal(SubSeq(s, 1, Len(s) - 1))
           + (CHOOSE d \in 0..9 : ToString(d) = s[Len(s)])
C25_IsNumber(s) ==
    s # << >> /\ \A i \in 1..Len(s) : s[i] \in {ToString(d) : d \in 0..9}
RECURSIVE C25_Repeat(_, _)
C25_Repeat(s, k) == IF k = 0 THEN << >> ELSE s \o C25_Repeat(s, k - 1)
\* the number n and the count k with name = "{n}" ++ k times "x.{format}", if any
C25_Readings(f) ==
    {<<n, k>> \in (0..Len(f.name)) \X (0..Len(f.name)) :
        /\ C25_IsNumber(SubSeq(f.name, 1, n))
        /\ f.name = SubSeq(f.name, 1, n) \o C25_Repeat(<<"x", ".">> \o f.format, k)}
\* the name is "{scale}x.{format}"
C25_OfForm(f) == \E r \in C25_Readings(f) : r[2] = 1
C25_Number(f) ==
    C25_Decimal(SubSeq(f.name, 1, (CHOOSE r \in C25_Readings(f) : TRUE)[1]))

\* C25 -- Derived image shape: for a record with a host+files source (and no images
\* list), each file becomes one variant, in order; its scale is the integer parsed
\* from a name of the form "{scale}x.{format}", and 1 when the name does not parse
\* (what remains after stripping "x.{format}" from its end is not a number); its MIME
\* is image/{format}; its frame_count is 2 when the record's animated flag is true
\* and 1 otherwise, also when the flag is absent.  The asset made from a one-file
\* record carries that scale, MIME and animated flag.  (A name that is a number
\* followed by no or by several "x.{format}" parses as that number.)
C25_DerivedImageShape ==
    \A p \in DOMAIN procs :
        LET q == procs[p] IN
        \A i \in 1..Len(q.batch) :
            LET e == q.batch[i] IN
            (e.images = None /\ e.host # None) =>
                LET files == e.host[1].files
                    imgs == emote_images(e)[1]
                    frames == IF e.animated = Some(TRUE) THEN 2 ELSE 1
                IN  /\ Len(imgs) = Len(files)
                    /\ \A k \in 1..Len(files) :
                         /\ C25_OfForm(files[k]) => imgs[k].scale = C25_Number(files[k])
                         /\ C25_Readings(files[k]) = {} => imgs[k].scale = 1
                         /\ C25_Readings(files[k]) # {} =>
                               imgs[k].scale = C25_Number(files[k])
                         /\ imgs[k].mime = <<"image/">> \o files[k].format
                         /\ imgs[k].frame_count = frames
                    /\ (Len(files) = 1 /\ q.st[i] = "some") =>
                         \E a \in {q.out[k] : k \in 1..Len(q.out)} :
                             /\ a.emote_id = e.id
                             /\ a.scale = Some(imgs[1].scale)
                             /\ a.mime = Some(<<"image/">> \o files[1].format)
                             /\ a.animated = Some(frames = 2)

\* an asset was made from a file whose name does not parse (scale 1) of a record
\* without animated flag (one frame)
C25_Witness ==
    \E p \in DOMAIN procs :
        LET q == procs[p] IN
        /\ Len(q.batch) = 1
        /\ q.batch[1].images = None
        /\ q.batch[1].animated = None
        /\ q.st[1] = "some"
        /\ Len(q.batch[1].host[1].files) = 1
        /\ C25_Readings(q.batch[1].host[1].files[1]) = {}
        /\ q.out[1].scale = Some(1)
        /\ q.out[1].animated = Some(FALSE)

\* an asset was made from a file named "12x.avif" of an animated record
C25_WitnessParsed ==
    \E p \in DOMAIN procs :
        LET q == procs[p] IN
        /\ Len(q.batch) = 1
        /\ q.batch[1].animated = Some(TRUE)
        /\ q.st[1] = "some"
        /\ Len(q.batch[1].host[1].files) = 1
        /\ C25_OfForm(q.batch[1].host[1].files[1])
        /\ q.out[1].scale = Some(12)
        /\ q.out[1].animated = Some(TRUE)

-----------------------------------------------------------------------------
(* Records without a display name (checked under SpecIngest) *)

C26_Nameless(e) == e.default_name = None /\ e.name = None
C26_Named(q) == {j \in 1..Len(q.batch) : ~C26_Nameless(q.batch[j])}

\* C26 -- Missing display name drops the record: a raw record that has neither a
\* default name nor a name yields no asset in the ingest output and causes no write
\* to the archive (no existence check and no PUT is issued for it; every blob of the
\* archive is the blob of a named record of the batch), and the rest of the batch is
\* unaffected: when ingest returns, its output holds exactly one asset for each other
\* record whose own pipeline succeeded.
C26_NamelessDropped ==
    \A p \in DOMAIN procs :
        LET q == procs[p] IN
        /\ \A i \in 1..Len(q.batch) :
             C26_Nameless(q.batch[i]) =>
                 /\ q.st[i] \in {"new", "download", "none"}
                 /\ q.up[i] = "none"
                 /\ \A k \in 1..Len(q.out) : q.out[k].emote_id # q.batch[i].id
        /\ q.calls.head + q.calls.put
             <= 2 * Cardinality({j \in C26_Named(q) : q.dl[j] = "ok"})
        /\ DOMAIN archive \subseteq
             {blob_name(q.folder, q.out[k].file_name) : k \in 1..Len(q.out)}
        /\ q.pc = "returned" =>
             /\ Len(q.processed) = Cardinality(C8_Kept(q) \cap C26_Named(q))
             /\ \A j \in C8_Kept(q) \cap C26_Named(q) :
                  \E k \in 1..Len(q.processed) : q.processed[k].emote_id = q.batch[j].id

\* ingest returned one asset for a batch of two: the image of the nameless record was
\* downloaded and the record dropped, the other record was stored
C26_Witness ==
    \E p \in DOMAIN procs :
        LET q == procs[p] IN
        /\ q.pc = "returned"
        /\ Len(q.batch) = 2
        /\ \E i \in 1..2 : C26_Nameless(q.batch[i]) /\ q.dl[i] = "ok"
        /\ Len(q.processed) = 1
        /\ Cardinality(DOMAIN archive) = 1

-----------------------------------------------------------------------------
(* Properties of requests that follow one another (checked under SpecSequence) *)

\* the archive folder a read is about
C27_Folder(q) == IF q.kind = "synced_read" THEN ReadFolder(q) ELSE q.folder
\* every resync before the request of slot p has returned success
C27_AllSucceeded(p) ==
    \A o \in DOMAIN procs :
        (o < p /\ IsResync(procs[o])) => CompletedResync(procs[o])
C27_Returned(q) == {q.resp[1].emotes[k] : k \in 1..Len(q.resp[1].emotes)}

\* C27 -- Referential integrity of synced reads: after any sequence of non-overlapping
\* resyncs that each returned success, every asset returned by a synced-folder or
\* saved-user-folder read of a folder has a blob at {folder}/{fileName} in the
\* archive (the archive as it is when the read is made).
C27_ReferentialIntegrity ==
    \A p \in DOMAIN procs :
        LET q == procs[p] IN
        (IsRead(q) /\ q.pc = "done" /\ C27_AllSucceeded(p)) =>
            \A a \in C27_Returned(q) :
                blob_name(C27_Folder(q), a.file_name) \in DOMAIN q.pre[1].archive

\* the same for the reads of a trending folder after resyncs none of whose store
\* calls failed
C27_TrendingIntegrity ==
    \A p \in DOMAIN procs :
        LET q == procs[p] IN
        (/\ q.kind = "synced_read"
         /\ q.pc = "done"
         /\ \A o \in DOMAIN procs : (o < p /\ IsResync(procs[o])) => CleanResync(procs[o]))
        => \A a \in C27_Returned(q) :
               blob_name(C27_Folder(q), a.file_name) \in DOMAIN q.pre[1].archive

\* the stores as they were when the request of slot o had returned
C28_After(o) ==
    IF o + 1 \in DOMAIN procs /\ procs[o + 1].pc # "idle"
    THEN procs[o + 1].pre[1]
    ELSE [archive |-> archive, cache |-> cache, ledger |-> ledger, users |-> users]
\* step 1 of the resync succeeded and its catalog fetch failed
C28_FetchFailed(q) ==
    /\ IsResync(q)
    /\ q.pc = "done"
    /\ q.phases = <<"cleanup", "fetch">>
\* the assets the folder's ledger rows and cache entry held before the resync
C28_OldRows(q) == {row_to_emote(r) : r \in RowsOf(q.pre[1].ledger, db_folder(q))}
C28_OldEntry(q) ==
    IF sync_key(q) \in DOMAIN q.pre[1].cache
    THEN emotes_from_slice(q.pre[1].cache[sync_key(q)].bytes) ELSE None
C28_OldAssets(q) ==
    C28_OldRows(q) \cup
    (IF C28_OldEntry(q) = None THEN {}
     ELSE {C28_OldEntry(q)[1][k] : k \in 1..Len(C28_OldEntry(q)[1])})

\* C28 -- Fetch failure after cleanup: when step 1 of a resync succeeds and the catalog
\* fetch of step 2 fails, the resync returns a failed result and leaves cache, stickers
\* and users exactly as they were before the resync, while no blob is left under the
\* folder's prefix (the manifest included) and the blobs of other folders are
\* untouched; a synced read of the same trending folder that follows, none of its
\* store calls failing, returns success with assets that the folder's ledger rows or
\* cache entry held before the resync, whenever these held a row or a list.
C28_FetchFailureAfterCleanup ==
    \A o \in DOMAIN procs :
        LET q == procs[o]
            after == C28_After(o)
        IN
        C28_FetchFailed(q) =>
            /\ ~q.resp[1].success
            /\ q.resp[1].emotes = << >>
            /\ after.cache = q.pre[1].cache
            /\ after.ledger = q.pre[1].ledger
            /\ after.users = q.pre[1].users
            /\ BlobsUnder(after.archive, q.folder \o <<"/">>) = {}
            /\ \A n \in DOMAIN q.pre[1].archive :
                 ~IsPrefix(q.folder \o <<"/">>, n) =>
                     (n \in DOMAIN after.archive /\ after.archive[n] = q.pre[1].archive[n])
            /\ (/\ o + 1 \in DOMAIN procs
                /\ procs[o + 1].kind = "synced_read"
                /\ procs[o + 1].pc = "done"
                /\ procs[o + 1].errs = {}
                /\ db_folder(procs[o + 1]) = db_folder(q)
                /\ (C28_OldRows(q) # {} \/ C28_OldEntry(q) # None)) =>
                  /\ procs[o + 1].resp[1].success
                  /\ C27_Returned(procs[o + 1]) \subseteq C28_OldAssets(q)

\* a trending resync deleted the blobs of its folder and failed at the fetch, and the
\* synced read that followed returned an old asset, whose blob is gone
C28_Witness ==
    \E o \in DOMAIN procs :
        /\ C28_FetchFailed(procs[o])
        /\ BlobsUnder(procs[o].pre[1].archive, procs[o].folder \o <<"/">>) # {}
        /\ o + 1 \in DOMAIN procs
        /\ procs[o + 1].kind = "synced_read"
        /\ procs[o + 1].pc = "done"
        /\ procs[o + 1].resp[1].success
        /\ \E a \in C27_Returned(procs[o + 1]) :
              /\ a \in C28_OldRows(procs[o])
              /\ blob_name(procs[o].folder, a.file_name) \notin DOMAIN archive

-----------------------------------------------------------------------------
(* The manifest of overlapping resyncs (checked under SpecConcurrent) *)

\* every resync of the behaviour is still on record and none has deleted a blob:
\* no cleanup can have removed a manifest
C29_NothingDeleted ==
    /\ Cardinality({o \in DOMAIN procs : IsResync(procs[o])}) = nreq
    /\ \A o \in DOMAIN procs : procs[o].calls.delete = 0
C29_Manifest(q) ==
    IF metadata_blob_name(q.folder) \in DOMAIN archive
    THEN emotes_from_slice(archive[metadata_blob_name(q.folder)].data) ELSE None

\* C29 -- Manifest matches the resync result: whenever a trending resync has returned
\* success, also when another resync of the same folder runs concurrently, the
\* manifest at {folder}/_metadata.json equals the asset list this resync wrote under
\* the sync key, unless a later resync's cleanup has deleted it.  (Stated for resyncs
\* none of whose store calls failed, in behaviours in which no cleanup has deleted
\* any blob.)
C29_ManifestMatches ==
    \A p \in DOMAIN procs :
        LET q == procs[p] IN
        (q.kind = "sync_trending" /\ CleanResync(q) /\ C29_NothingDeleted) =>
            C29_Manifest(q) = Some(q.processed)

\* the same for a trending resync that is the only resync of the behaviour
C29_ManifestOfLoneResync ==
    \A p \in DOMAIN procs :
        LET q == procs[p] IN
        (q.kind = "sync_trending" /\ CleanResync(q) /\ nreq = 1) =>
            C29_Manifest(q) = Some(q.processed)

-----------------------------------------------------------------------------
(* A synced read after a trending resync (checked under SpecSequence) *)

\* slot o holds a trending resync that returned success with a non-empty list, slot
\* o + 1 a finished synced read of the same period string and animated flag
C30_ReadFollows(o) ==
    /\ o + 1 \in DOMAIN procs
    /\ procs[o].kind = "sync_trending"
    /\ CompletedResync(procs[o])
    /\ procs[o].processed # << >>
    /\ procs[o + 1].kind = "synced_read"
    /\ procs[o + 1].pc = "done"
    /\ procs[o + 1].errs = {}
    /\ procs[o + 1].period_str = procs[o].period_str
    /\ procs[o + 1].animated_only = procs[o].animated_only
C30_Answer(o) ==
    /\ procs[o + 1].resp[1].success
    /\ \A a \in C27_Returned(procs[o + 1]) :
          \E k \in 1..Len(procs[o].processed) :
              /\ procs[o].processed[k].emote_id = a.emote_id
              /\ procs[o].processed[k].file_name = a.file_name
    /\ db_folder(procs[o + 1]) = db_folder(procs[o])
    /\ sync_key(procs[o + 1]) = sync_key(procs[o])

\* C30 -- Read-after-resync: after a trending resync for (period string, animated
\* flag) has returned success with a non-empty asset list and its ledger write or its
\* cache write succeeded, a synced read for the same period string and animated flag
\* (none of its own store calls failing) returns success, and every asset it returns
\* has the external id and file name of an asset produced by that resync; both
\* derive the same ledger folder name and the same sync key.
C30_ReadAfterResync ==
    \A o \in DOMAIN procs :
        (/\ C30_ReadFollows(o)
         /\ ("db" \notin procs[o].errs \/ "cache" \notin procs[o].errs))
        => C30_Answer(o)

\* the same when no ledger call of the resync failed, or the resync left the folder
\* without rows and wrote the cache entry
C30_ReadAfterWholeWrite ==
    \A o \in DOMAIN procs :
        (/\ C30_ReadFollows(o)
         /\ \/ "db" \notin procs[o].errs
            \/ /\ "cache" \notin procs[o].errs
               /\ RowsOf(procs[o + 1].pre[1].ledger, db_folder(procs[o])) = {})
        => C30_Answer(o)

-----------------------------------------------------------------------------
(* Properties of the ad-hoc handlers under overlap (checked under SpecAdhoc) *)

\* an ad-hoc search that was answered from the cache
C31_ServedFromCache(q) ==
    /\ q.kind = "adhoc_search"
    /\ q.pc = "done"
    /\ q.phases = <<"cache">>

\* C31 -- Search cache key and page: the search key is built from (query, limit,
\* animated-only) and not from the page, and every search response served from the
\* cache has a `page` field equal to the page the current request asked for.
C31_CachedPageIsRequestedPage ==
    \A p \in DOMAIN procs :
        C31_ServedFromCache(procs[p]) =>
            /\ cache_key(procs[p]) =
                 get_cache_key(procs[p].query, procs[p].limit, procs[p].animated_only)
            /\ procs[p].resp[1].cached = Some(TRUE)
            /\ procs[p].resp[1].page = Some(procs[p].page)

\* what does hold: the response is the stored one, `page` included, whatever page the
\* request asked for
C31_CachedPageIsStoredPage ==
    \A p \in DOMAIN procs :
        C31_ServedFromCache(procs[p]) =>
            LET stored == response_from_slice(
                              procs[p].pre[1].cache[cache_key(procs[p])].bytes)[1]
            IN  procs[p].resp[1] = [stored EXCEPT !.cached = Some(TRUE)]

\* a search for page 2 answered from the cache with page 1
C31_Witness ==
    \E p \in DOMAIN procs :
        /\ C31_ServedFromCache(procs[p])
        /\ procs[p].page = 2
        /\ procs[p].resp[1].page = Some(1)

-----------------------------------------------------------------------------
(* The window of the cache tier for every integer limit (checked under Spec) *)

\* a synced read answered from the list under the sync key
C35_CacheServed(q) ==
    /\ q.kind = "synced_read"
    /\ q.pc = "done"
    /\ "cache" \in C16_Phases(q)

\* C35 -- Limit bounds the cache-tier window: for every integer limit, a synced read
\* served from the cache tier returns at most max(limit, 0) assets; a zero or negative
\* limit returns an empty list.
C35_LimitBoundsWindow ==
    \A p \in DOMAIN procs :
        C35_CacheServed(procs[p]) =>
            Len(procs[p].resp[1].emotes) <=
                (IF procs[p].limit > 0 THEN procs[p].limit ELSE 0)

\* what does hold: the bound for limits >= 0, and the whole stored list for the
\* negative ones
C35_WindowBySign ==
    \A p \in DOMAIN procs :
        LET q == procs[p] IN
        C35_CacheServed(q) =>
            IF q.limit >= 0
            THEN Len(q.resp[1].emotes) <= q.limit
            ELSE q.resp[1].emotes = emotes_from_slice(q.pre[1].cache[sync_key(q)].bytes)[1]

\* a read with limit -1 that returned a non-empty list
C35_Witness ==
    \E p \in DOMAIN procs :
        /\ C35_CacheServed(procs[p])
        /\ procs[p].limit = -1
        /\ procs[p].resp[1].emotes # << >>

-----------------------------------------------------------------------------
(* The image source of a record (checked under SpecIngest) *)

\* record i was dropped before any image request was made for it
C36_DroppedUnfetched(q, i) == q.st[i] = "none" /\ q.dl[i] = "none"
C36_HasImages(e) == e.images # None /\ e.images[1] # << >>
C36_HasHostFiles(e) == e.host # None /\ e.host[1].files # << >>

\* C36 -- Image source precedence: a record is dropped for lack of an image source
\* only when it has neither a (non-empty) images list nor a (non-empty) host/files
\* shape; a record whose images list is present but empty and whose host/files shape
\* is non-empty is ingested from the host/files variants.
C36_SourcePrecedence ==
    \A p \in DOMAIN procs :
        LET q == procs[p] IN
        q.pc = "returned" =>
            \A i \in 1..Len(q.batch) :
                /\ C36_DroppedUnfetched(q, i) =>
                     ~C36_HasImages(q.batch[i]) /\ ~C36_HasHostFiles(q.batch[i])
                /\ (q.batch[i].images = Some(<< >>) /\ C36_HasHostFiles(q.batch[i])) =>
                     q.dl[i] # "none"

\* what does hold: the host/files shape is looked at only when the images list is
\* absent; a present but empty list drops the record whatever its host holds
C36_ImagesListShadowsHost ==
    \A p \in DOMAIN procs :
        LET q == procs[p] IN
        q.pc = "returned" =>
            \A i \in 1..Len(q.batch) :
                C36_DroppedUnfetched(q, i) <=>
                    IF q.batch[i].images # None
                    THEN q.batch[i].images[1] = << >>
                    ELSE ~C36_HasHostFiles(q.batch[i])

\* a record with an empty images list and a usable host was dropped unfetched
C36_Witness ==
    \E p \in DOMAIN procs :
        /\ procs[p].pc = "returned"
        /\ \E i \in 1..Len(procs[p].batch) :
             /\ procs[p].batch[i].images = Some(<< >>)
             /\ C36_HasHostFiles(procs[p].batch[i])
             /\ C36_DroppedUnfetched(procs[p], i)

-----------------------------------------------------------------------------
(* Selection under reordering of the variant list (checked under SpecSelect) *)

\* the reorderings of a list
C34_Reorderings(list) ==
    {[k \in 1..Len(list) |-> list[f[k]]] : f \in Permutations(1..Len(list))}
C34_Traits(img) == <<img.mime, img.scale, img.frame_count > 1>>
C34_Preferred(img) == position(img.mime) # None

\* C34 -- Selection is order-independent: for every non-empty variant list and every
\* permutation of it, the selector returns a variant with the same MIME, scale and
\* animation status, also when several variants tie on (animation, MIME rank, scale).
\* (Stated for the records the selector has run on; the asset of a kept record has
\* the traits of the selected variant.)
C34_OrderIndependentSelection ==
    \A p \in DOMAIN procs :
        \A i \in 1..Len(procs[p].batch) :
            LET list == procs[p].batch[i].images[1] IN
            (list # << >> /\ procs[p].st[i] # "new") =>
                \A other \in C34_Reorderings(list) :
                    /\ C34_Traits(select_best_image(other)[1])
                         = C34_Traits(select_best_image(list)[1])
                    /\ procs[p].st[i] = "some" =>
                         LET alt == select_best_image(other)[1] IN
                         /\ procs[p].out[1].mime = Some(alt.mime)
                         /\ procs[p].out[1].scale = Some(alt.scale)
                         /\ procs[p].out[1].animated = Some(alt.frame_count > 1)

\* what does hold: scale and animation status never depend on the order, and the MIME
\* does not when the selected variant is of a preferred type
C34_OrderIndependentButUnknownMime ==
    \A p \in DOMAIN procs :
        \A i \in 1..Len(procs[p].batch) :
            LET list == procs[p].batch[i].images[1]
                sel == select_best_image(list)[1]
            IN  (list # << >> /\ procs[p].st[i] # "new") =>
                \A other \in C34_Reorderings(list) :
                    LET alt == select_best_image(other)[1] IN
                    /\ alt.scale = sel.scale
                    /\ (alt.frame_count > 1) = (sel.frame_count > 1)
                    /\ C34_Preferred(alt) = C34_Preferred(sel)
                    /\ C34_Preferred(sel) => alt.mime = sel.mime
                    /\ procs[p].st[i] = "some" =>
                         /\ procs[p].out[1].scale = Some(alt.scale)
                         /\ procs[p].out[1].animated = Some(alt.frame_count > 1)

\* two variants of different unlisted MIME types and equal scale were ingested, and the
\* asset has the MIME of the one listed last
C34_Witness ==
    \E p \in DOMAIN procs :
        LET q == procs[p] IN
        /\ q.pc = "returned"
        /\ q.batch[1].images = Some(<<Variant(<<"image/", "jpeg">>, 2, 1),
                                      Variant(<<"image/", "bmp">>, 2, 1)>>)
        /\ Len(q.processed) = 1
        /\ q.processed[1].mime = Some(<<"image/", "bmp">>)

-----------------------------------------------------------------------------
(* Termination of the ingestion pipeline (checked under SpecIngestFair) *)

\* how far the pipeline of a record has got
C33_Rank(s) ==
    CASE s = "new" -> 0
      [] s = "download" -> 1
      [] s = "check" -> 2
      [] s = "put" -> 3
      [] OTHER -> 4
\* the records whose pipeline goes as far as the image request
C33_Fetchable(q) ==
    {i \in 1..Len(q.batch) :
        /\ emote_images(q.batch[i]) # None
        /\ select_best_image(emote_images(q.batch[i])[1]) # None}
\* process_emotes_batch has returned, every record's pipeline having been started and
\* ended, with one image request for each record that has a variant to fetch
C33_Returned ==
    \A p \in DOMAIN procs :
        LET q == procs[p] IN
        /\ q.pc = "returned"
        /\ \A i \in 1..Len(q.batch) : q.st[i] \in {"some", "none"}
        /\ q.calls.download = Cardinality(C33_Fetchable(q))
        /\ \A i \in 1..Len(q.batch) : q.dl[i] # "none" <=> i \in C33_Fetchable(q)
\* a pipeline, once started, only moves forward: it is never started again
C33_Forward ==
    \A p \in DOMAIN procs :
        /\ procs'[p].batch = procs[p].batch
        /\ \A i \in 1..Len(procs[p].st) :
             /\ C33_Rank(procs'[p].st[i]) >= C33_Rank(procs[p].st[i])
             /\ procs[p].st[i] # "new" => procs'[p].st[i] # "new"
        /\ procs'[p].calls.download \in
             {procs[p].calls.download, procs[p].calls.download + 1}

\* C33 -- Ingest terminates: for every finite batch, provided each image download and
\* each archive call eventually returns, process_emotes_batch eventually returns,
\* having started the pipeline of every input record exactly once.
C33_IngestTerminates == [][C33_Forward]_vars /\ <>C33_Returned

\* a batch longer than the buffer is wide has been returned, one image request made
\* for each of its records
C33_Witness ==
    \E p \in DOMAIN procs :
        /\ procs[p].pc = "returned"
        /\ Len(procs[p].batch) > BufferWidth
        /\ procs[p].calls.download = Len(procs[p].batch)

-----------------------------------------------------------------------------
(* Two ad-hoc requests for one key (checked under SpecAdhoc) *)

\* an ad-hoc request that found its key absent, none of whose calls failed and which
\* returned success, so that it stored its response before it returned
C32_Missed(q) ==
    /\ IsAdhoc(q)
    /\ q.pc = "done"
    /\ q.errs = {}
    /\ q.resp[1].success
    /\ cache_key(q) \notin DOMAIN q.pre[1].cache
\* two finished requests for the same key that both started while the key was absent:
\* neither had stored its response when the other looked the key up (no entry expires
\* in the behaviours of SpecAdhoc)
C32_Overlapped(a, b) ==
    /\ a # b
    /\ C32_Missed(procs[a])
    /\ C32_Missed(procs[b])
    /\ cache_key(procs[a]) = cache_key(procs[b])

\* C32 -- Single fetch per key under concurrency: of two ad-hoc requests with the same
\* cache key that overlap while the key is absent, at most one performs the catalog
\* fetch and the ingestion, and both return the same emote list.
C32_SingleFetchPerKey ==
    \A a, b \in DOMAIN procs :
        C32_Overlapped(a, b) =>
            /\ procs[a].calls.fetch + procs[b].calls.fetch <= 1
            /\ procs[a].resp[1].emotes = procs[b].resp[1].emotes

\* what does hold: each of the two makes its own fetch, runs its own ingestion and
\* returns what its own ingestion produced
C32_EachMissFetches ==
    \A a, b \in DOMAIN procs :
        C32_Overlapped(a, b) =>
            /\ procs[a].calls.fetch = 1
            /\ procs[b].calls.fetch = 1
            /\ procs[a].resp[1].emotes = procs[a].processed
            /\ procs[b].resp[1].emotes = procs[b].processed

\* both requests fetched, and they returned different lists
C32_Witness ==
    \E a, b \in DOMAIN procs :
        /\ C32_Overlapped(a, b)
        /\ procs[a].calls.fetch = 1
        /\ procs[b].calls.fetch = 1
        /\ procs[a].resp[1].success
        /\ procs[b].resp[1].success
        /\ procs[a].resp[1].emotes # procs[b].resp[1].emotes

====
